---- MODULE Spec2Model ----
(***************************************************************************)
(* Model of bokeh/plotting/helpers.py: the keyword-argument helpers behind *)
(* the glyph methods of a Figure.                                          *)
(*                                                                         *)
(* Encoding of Python values.                                              *)
(*   - A name (dict key, property name, prefix) is the sequence of its     *)
(*     underscore-separated tokens: "selection_line_color" is              *)
(*     <<"selection","line","color">>.  A prefix such as "selection_" is   *)
(*     <<"selection">> and prefix+name is sequence concatenation.  The     *)
(*     empty prefix is <<>>.                                               *)
(*   - A dict is a function from names to values.                          *)
(*   - A value is a pair <<type, payload>> with payload a token sequence.  *)
(***************************************************************************)
EXTENDS Integers, Sequences, FiniteSets, TLC

VARIABLES pc, op, inp, out, func_defaults, plot

vars == <<pc, op, inp, out, func_defaults, plot>>

----------------------------------------------------------------------------
(* Bounds of the model *)

MaxProps == 2
MaxDefaults == 1
MaxRenderers == 2

----------------------------------------------------------------------------
(* Python dicts and values *)

EmptyDict == [k \in {} |-> <<>>]

Has(d, k) == k \in DOMAIN d

Put(d, k, v) == [x \in (DOMAIN d) \cup {k} |-> IF x = k THEN v ELSE d[x]]

Pop(d, k) == [x \in (DOMAIN d) \ {k} |-> d[x]]

PopAll(d, ks) == [x \in (DOMAIN d) \ ks |-> d[x]]

SetDefault(d, k, v) == IF Has(d, k) THEN d ELSE Put(d, k, v)

PyStr(tokens) == <<"str", tokens>>

PyNum(tokens) == <<"num", tokens>>

None == <<"None", <<>>>>

(* all sequences without repetition over the set S: the orders in which a   *)
(* Python set or dict holding exactly S can be iterated                     *)
RECURSIVE Orders(_)
Orders(S) ==
    IF S = {} THEN {<<>>}
    ELSE UNION {{<<x>> \o r : r \in Orders(S \ {x})} : x \in S}

SubsetsUpTo(S, n) == {T \in SUBSET S : Cardinality(T) <= n}

----------------------------------------------------------------------------
(* get_default_color *)

colors ==
    <<"#1f77b4",
      "#ff7f0e", "#ffbb78",
      "#2ca02c", "#98df8a",
      "#d62728", "#ff9896",
      "#9467bd", "#c5b0d5",
      "#8c564b", "#c49c94",
      "#e377c2", "#f7b6d2",
      "#7f7f7f",
      "#bcbd22", "#dbdb8d",
      "#17becf", "#9edae5">>

(* the plot argument: given is FALSE for None (the default); renderers     *)
(* holds the __view_model__ of each of the plot's renderers                *)
NoPlot == [given |-> FALSE, renderers |-> <<>>]

IsGlyphRenderer(view_model) == view_model = "GlyphRenderer"

(* colors[num_renderers], Python counting from 0; past the end of the list *)
(* the subscript raises IndexError                                         *)
get_default_color(p) ==
    IF p.given
    THEN LET num_renderers == Len(SelectSeq(p.renderers, IsGlyphRenderer))
         IN  IF num_renderers < Len(colors)
             THEN PyStr(<<colors[num_renderers + 1]>>)
             ELSE <<"IndexError", <<>>>>
    ELSE PyStr(<<colors[1]>>)

----------------------------------------------------------------------------
(* _pop_visuals *)

(* property names of the glyph classes used as inputs, as the class's      *)
(* properties() would report them (reduced to a few properties each)       *)
GlyphProperties ==
    [Rect |-> {<<"x">>, <<"width">>, <<"line", "color">>, <<"line", "width">>,
               <<"fill", "alpha">>},
     Text |-> {<<"x">>, <<"text", "color">>, <<"global", "alpha">>}]

GlyphClasses == DOMAIN GlyphProperties

(* Feature is up to the first "_"; the trait is the rest, <<>> when there  *)
(* is no "_" (None in the source)                                          *)
split_feature_trait(ft) ==
    IF Len(ft) >= 2 THEN <<ft[1], Tail(ft)>> ELSE <<ft[1], <<>>>>

is_visual(ft) ==
    LET feature == split_feature_trait(ft)[1]
        trait == split_feature_trait(ft)[2]
    IN  feature \in {"line", "fill", "text", "global"} /\ trait # <<>>

(* the completion of defaults done on the argument itself, without copy() *)
complete_defaults_alias(defaults) ==
    [local  |-> SetDefault(defaults, <<"text", "color">>, PyStr(<<"black">>)),
     caller |-> SetDefault(defaults, <<"text", "color">>, PyStr(<<"black">>))]

(* defaults = defaults.copy(); defaults.setdefault('text_color', 'black'): *)
(* local is the dict the lookup uses, caller is the argument object as the *)
(* two statements leave it                                                 *)
complete_defaults(defaults) ==
    [local  |-> SetDefault(defaults, <<"text", "color">>, PyStr(<<"black">>)),
     caller |-> defaults]

trait_defaults ==
    SetDefault(SetDefault(EmptyDict, <<"color">>, get_default_color(NoPlot)),
               <<"alpha">>, PyNum(<<"1.0">>))

(* the loop body with the override default consulted after the glyph-level *)
(* default                                                                 *)
pop_visuals_step_swapped(glyphprops, prefix, defaults, override_defaults, st, pname) ==
    LET trait == split_feature_trait(pname)[2]
        tier ==
            IF Has(st.props, prefix \o pname) THEN 1
            ELSE IF trait \notin glyphprops /\ Has(st.props, prefix \o trait) THEN 2
            ELSE IF Has(defaults, pname) THEN 4
            ELSE IF Has(override_defaults, trait) THEN 3
            ELSE IF Has(trait_defaults, trait) THEN 5
            ELSE 0
    IN  [props  |-> IF tier = 1 THEN Pop(st.props, prefix \o pname) ELSE st.props,
         result |-> CASE tier = 1 -> Put(st.result, pname, st.props[prefix \o pname])
                      [] tier = 2 -> Put(st.result, pname, st.props[prefix \o trait])
                      [] tier = 3 -> Put(st.result, pname, override_defaults[trait])
                      [] tier = 4 -> Put(st.result, pname, defaults[pname])
                      [] tier = 5 -> Put(st.result, pname, trait_defaults[trait])
                      [] OTHER    -> st.result,
         traits |-> IF trait \notin glyphprops THEN st.traits \cup {trait}
                    ELSE st.traits]

(* one iteration of the loop over the visual properties; st holds props,   *)
(* result and traits                                                       *)
pop_visuals_step(glyphprops, prefix, defaults, override_defaults, st, pname) ==
    LET trait == split_feature_trait(pname)[2]
        tier ==
            IF Has(st.props, prefix \o pname) THEN 1
            ELSE IF trait \notin glyphprops /\ Has(st.props, prefix \o trait) THEN 2
            ELSE IF Has(override_defaults, trait) THEN 3
            ELSE IF Has(defaults, pname) THEN 4
            ELSE IF Has(trait_defaults, trait) THEN 5
            ELSE 0
    IN  [props  |-> IF tier = 1 THEN Pop(st.props, prefix \o pname) ELSE st.props,
         result |-> CASE tier = 1 -> Put(st.result, pname, st.props[prefix \o pname])
                      [] tier = 2 -> Put(st.result, pname, st.props[prefix \o trait])
                      [] tier = 3 -> Put(st.result, pname, override_defaults[trait])
                      [] tier = 4 -> Put(st.result, pname, defaults[pname])
                      [] tier = 5 -> Put(st.result, pname, trait_defaults[trait])
                      [] OTHER    -> st.result,
         traits |-> IF trait \notin glyphprops THEN st.traits \cup {trait}
                    ELSE st.traits]

RECURSIVE pop_visuals_loop(_, _, _, _, _, _)
pop_visuals_loop(glyphprops, prefix, defaults, override_defaults, st, order) ==
    IF order = <<>> THEN st
    ELSE pop_visuals_loop(glyphprops, prefix, defaults, override_defaults,
             pop_visuals_step(glyphprops, prefix, defaults, override_defaults,
                              st, Head(order)),
             Tail(order))

(* the function without the final loop that pops the alias keys *)
pop_visuals_keep_alias(glyphprops, props, prefix, defaults, override_defaults, order) ==
    LET dc == complete_defaults(defaults)
        st == pop_visuals_loop(glyphprops, prefix, dc.local, override_defaults,
                  [props |-> props, result |-> EmptyDict, traits |-> {}], order)
    IN  [result |-> st.result,
         props |-> st.props,
         defaults |-> dc.caller,
         override_defaults |-> override_defaults]

(* order is the order in which filter(is_visual, glyphprops) yields the    *)
(* names of the set glyphprops.  The value gives the returned dict and the *)
(* three argument dicts as the call leaves them.                           *)
_pop_visuals(glyphprops, props, prefix, defaults, override_defaults, order) ==
    LET dc == complete_defaults(defaults)
        st == pop_visuals_loop(glyphprops, prefix, dc.local, override_defaults,
                  [props |-> props, result |-> EmptyDict, traits |-> {}], order)
    IN  [result |-> st.result,
         props |-> PopAll(st.props, {prefix \o t : t \in st.traits}),
         defaults |-> dc.caller,
         override_defaults |-> override_defaults]

VisualOrders(glyphprops) == Orders({p \in glyphprops : is_visual(p)})

----------------------------------------------------------------------------
(* Inputs of the _pop_visuals calls *)

Prefixes == {<<>>, <<"selection">>}

PropsKeys ==
    UNION {{pre \o k : k \in {<<"line", "color">>, <<"color">>, <<"width">>,
                              <<"alpha">>, <<"text", "color">>}}
           : pre \in Prefixes}
    \cup {<<"x">>, <<"hover", "color">>}

DefaultsKeys == {<<"line", "color">>, <<"text", "color">>, <<"fill", "alpha">>,
                 <<"global", "alpha">>}

OverrideKeys == {<<"alpha">>, <<"color">>, <<"width">>}

(* a dict over the keys ks in which each value names the dict and the key  *)
(* it was given under                                                      *)
DictOf(tag, ks) == [k \in ks |-> PyStr(<<tag>> \o k)]

(* stands for an argument that the call does not pass *)
Omitted == {<<"omitted">>}

----------------------------------------------------------------------------
(* _pop_legend_kwarg *)

_LEGEND_ARGS == <<<<"legend">>, <<"legend", "label">>, <<"legend", "field">>,
                  <<"legend", "group">>>>

Range(seq) == {seq[i] : i \in DOMAIN seq}

(* the function raising only for more than two legend keys *)
pop_legend_kwarg_lenient(kwargs) ==
    LET present == {a \in Range(_LEGEND_ARGS) : Has(kwargs, a)}
    IN  [raised |-> IF Cardinality(present) > 2 THEN "ValueError" ELSE "none",
         result |-> [a \in present |-> kwargs[a]],
         kwargs |-> PopAll(kwargs, present)]

(* result is the dict built by the comprehension, kwargs the argument as   *)
(* the pops leave it; result is returned only when raised is "none"        *)
_pop_legend_kwarg(kwargs) ==
    LET present == {a \in Range(_LEGEND_ARGS) : Has(kwargs, a)}
    IN  [raised |-> IF Cardinality(present) > 1 THEN "ValueError" ELSE "none",
         result |-> [a \in present |-> kwargs[a]],
         kwargs |-> PopAll(kwargs, present)]

LegendKwargKeys == Range(_LEGEND_ARGS) \cup {<<"x">>, <<"legend", "title">>}

----------------------------------------------------------------------------
(* _single_stack and _double_stack *)

MaxStackers == 2
MaxSeqLen == 2

(* a list or tuple value is <<"list", items>>; its items are names *)
IsListOrTuple(v) == v[1] = "list"

PyList(items) == <<"list", items>>

(* the stack transform of bokeh.transform, kept as the fields it stacks *)
stack(s) == <<"stack", s>>

(* the set built by the comprehension over kw.values() *)
stack_lengths(kw) == {Len(kw[k][2]) : k \in {j \in DOMAIN kw : IsListOrTuple(kw[j])}}

(* the two length checks; lengths.pop() of a one-element set is its element *)
stack_lengths_fail(kw, stackers) ==
    LET lengths == stack_lengths(kw)
    IN  /\ Cardinality(lengths) > 0
        /\ \/ Cardinality(lengths) # 1
           \/ (CHOOSE n \in lengths : TRUE) # Len(stackers)

(* the keyword arguments broadcast to the i-th stacker (i from 1) *)
stack_broadcast(d, kw, i) ==
    [k \in (DOMAIN d) \cup (DOMAIN kw) |->
        IF k \in DOMAIN kw
        THEN IF IsListOrTuple(kw[k]) THEN PyStr(<<kw[k][2][i]>>) ELSE kw[k]
        ELSE d[k]]

Take(seq, n) == SubSeq(seq, 1, n)

_single_stack(stackers, spec, kw) ==
    IF Has(kw, spec) THEN [raised |-> "ValueError", result |-> <<>>]
    ELSE IF stack_lengths_fail(kw, stackers)
         THEN [raised |-> "ValueError", result |-> <<>>]
    ELSE [raised |-> "none",
          result |-> [i \in 1..Len(stackers) |->
              stack_broadcast(
                  Put(Put(EmptyDict, <<"name">>, PyStr(<<stackers[i]>>)),
                      spec, stack(Take(stackers, i))),
                  kw, i)]]

(* the function checking only spec0 against the keyword arguments *)
double_stack_spec0_only(stackers, spec0, spec1, kw) ==
    IF Has(kw, spec0)
    THEN [raised |-> "ValueError", result |-> <<>>]
    ELSE IF stack_lengths_fail(kw, stackers)
         THEN [raised |-> "ValueError", result |-> <<>>]
    ELSE [raised |-> "none",
          result |-> [i \in 1..Len(stackers) |->
              stack_broadcast(
                  Put(Put(Put(EmptyDict, <<"name">>, PyStr(<<stackers[i]>>)),
                          spec0, stack(Take(stackers, i - 1))),
                      spec1, stack(Take(stackers, i))),
                  kw, i)]]

_double_stack(stackers, spec0, spec1, kw) ==
    IF Has(kw, spec0) \/ Has(kw, spec1)
    THEN [raised |-> "ValueError", result |-> <<>>]
    ELSE IF stack_lengths_fail(kw, stackers)
         THEN [raised |-> "ValueError", result |-> <<>>]
    ELSE [raised |-> "none",
          result |-> [i \in 1..Len(stackers) |->
              stack_broadcast(
                  Put(Put(Put(EmptyDict, <<"name">>, PyStr(<<stackers[i]>>)),
                          spec0, stack(Take(stackers, i - 1))),
                      spec1, stack(Take(stackers, i))),
                  kw, i)]]

(* all sequences over S of length at most n *)
RECURSIVE SeqsUpTo(_, _)
SeqsUpTo(S, n) ==
    IF n = 0 THEN {<<>>}
    ELSE LET shorter == SeqsUpTo(S, n - 1)
         IN  shorter \cup {Append(q, x) : q \in shorter, x \in S}

StackerNames == {"y1", "y2"}

StackKwKeys == {<<"color">>, <<"top">>, <<"bottom">>}

(* values of a keyword argument: a scalar or a list of 0..MaxSeqLen items *)
StackKwValues ==
    {PyStr(<<"red">>)} \cup {PyList([i \in 1..n |-> "c"]) : n \in 0..MaxSeqLen}

StackKws ==
    UNION {[ks -> StackKwValues] : ks \in SUBSET StackKwKeys}

----------------------------------------------------------------------------
(* Ranges: _get_range *)

MaxRangeLen == 3

(* a Range model object; fresh tells an object built by the call from one  *)
(* that was passed in                                                      *)
DataRange1d == [cls |-> "DataRange1d", factors |-> <<>>, start |-> None,
                end |-> None, fresh |-> TRUE]

FactorRange(factors) == [cls |-> "FactorRange", factors |-> factors,
                         start |-> None, end |-> None, fresh |-> TRUE]

Range1d(start, end) == [cls |-> "Range1d", factors |-> <<>>, start |-> start,
                        end |-> end, fresh |-> TRUE]

IsStrValue(v) == v[1] = "str"

(* the order of the sample strings under Python's string comparison *)
StrRank == ("1" :> 1) @@ ("2" :> 2) @@ ("3" :> 3) @@ ("a" :> 4) @@ ("b" :> 5) @@ ("c" :> 6)

(* sorted(...) of a set of str values *)
RECURSIVE sorted(_)
sorted(S) ==
    IF S = {} THEN <<>>
    ELSE LET least == CHOOSE x \in S : \A y \in S : StrRank[x[2][1]] <= StrRank[y[2][1]]
         IN  <<least>> \o sorted(S \ {least})

(* whether Range1d(start=..., end=...) raises ValueError: property         *)
(* validation of the framework accepts numbers; for other values the       *)
(* outcome is the input rejects                                            *)
Range1dRaises(start, end, rejects) ==
    ~(start[1] = "num" /\ end[1] = "num") /\ rejects

(* the function building a Range1d from the first two of any number of     *)
(* elements                                                                *)
get_range_any_length(range_input) ==
    IF range_input.kind = "None" THEN [raised |-> "none", range |-> DataRange1d]
    ELSE IF range_input.kind = "GroupBy"
    THEN [raised |-> "none", range |-> FactorRange(sorted(Range(range_input.elems)))]
    ELSE IF range_input.kind = "Range"
    THEN [raised |-> "none", range |-> range_input.obj]
    ELSE LET kind == IF range_input.kind = "Series" THEN "ndarray"
                     ELSE range_input.kind
             elems == range_input.elems
         IN  IF kind \in {"Sequence", "ndarray"}
                /\ \A i \in DOMAIN elems : IsStrValue(elems[i])
             THEN [raised |-> "none", range |-> FactorRange(elems)]
             ELSE IF kind \in {"Sequence", "ndarray"}
                     /\ Len(elems) >= 2
                     /\ ~Range1dRaises(elems[1], elems[2], range_input.rejects)
             THEN [raised |-> "none", range |-> Range1d(elems[1], elems[2])]
             ELSE [raised |-> "ValueError", range |-> None]

(* range_input.kind is the Python type of the argument: None, GroupBy and  *)
(* Series of pandas (pd is the imported module), Range, Sequence (list or  *)
(* tuple), ndarray, or other; elems are the elements of a sequence, the    *)
(* values of a Series or the keys of GroupBy.groups                        *)
_get_range(range_input) ==
    IF range_input.kind = "None" THEN [raised |-> "none", range |-> DataRange1d]
    ELSE IF range_input.kind = "GroupBy"
    THEN [raised |-> "none", range |-> FactorRange(sorted(Range(range_input.elems)))]
    ELSE IF range_input.kind = "Range"
    THEN [raised |-> "none", range |-> range_input.obj]
    ELSE LET kind == IF range_input.kind = "Series" THEN "ndarray"
                     ELSE range_input.kind
             elems == range_input.elems
         IN  IF kind \in {"Sequence", "ndarray"}
                /\ \A i \in DOMAIN elems : IsStrValue(elems[i])
             THEN [raised |-> "none", range |-> FactorRange(elems)]
             ELSE IF kind \in {"Sequence", "ndarray"}
                     /\ Len(elems) = 2
                     /\ ~Range1dRaises(elems[1], elems[2], range_input.rejects)
             THEN [raised |-> "none", range |-> Range1d(elems[1], elems[2])]
             ELSE [raised |-> "ValueError", range |-> None]

RangeElems == {PyStr(<<"a">>), PyStr(<<"b">>), PyNum(<<"1">>), PyNum(<<"2">>), None}

(* ranges that exist before a call *)
ExistingRanges ==
    {[cls |-> "DataRange1d", factors |-> <<>>, start |-> None, end |-> None,
      fresh |-> FALSE],
     [cls |-> "FactorRange", factors |-> <<PyStr(<<"b">>), PyStr(<<"a">>)>>,
      start |-> None, end |-> None, fresh |-> FALSE],
     [cls |-> "Range1d", factors |-> <<>>, start |-> PyNum(<<"1">>),
      end |-> PyNum(<<"2">>), fresh |-> FALSE]}

(* the keys of a dict are distinct; their order is the insertion order *)
GroupKeyOrders ==
    UNION {Orders(ks) : ks \in SUBSET {PyStr(<<"a">>), PyStr(<<"b">>), PyStr(<<"c">>)}}

RangeInputs ==
    {[kind |-> "None", elems |-> <<>>, obj |-> None, rejects |-> FALSE],
     [kind |-> "other", elems |-> <<>>, obj |-> None, rejects |-> FALSE]}
    \cup {[kind |-> "Range", elems |-> <<>>, obj |-> r, rejects |-> FALSE]
          : r \in ExistingRanges}
    \cup {[kind |-> "GroupBy", elems |-> ks, obj |-> None, rejects |-> FALSE]
          : ks \in GroupKeyOrders}
    \cup {[kind |-> k, elems |-> e, obj |-> None, rejects |-> rj]
          : k \in {"Sequence", "ndarray", "Series"},
            e \in SeqsUpTo(RangeElems, MaxRangeLen), rj \in BOOLEAN}

----------------------------------------------------------------------------
(* Axes: _get_axis_class *)

(* start_validates tells whether Datetime.validate accepts                 *)
(* range_input.start, which the framework decides.  The message of the     *)
(* last branch is built with "...%r" % axis_type, which takes a tuple as   *)
(* the list of the format's arguments: a tuple of other than one item      *)
(* raises TypeError instead of the ValueError                              *)
_get_axis_class(axis_type, range_input, dim, start_validates) ==
    IF axis_type = None THEN [raised |-> "none", cls |-> "None", kw |-> EmptyDict]
    ELSE IF axis_type = PyStr(<<"linear">>)
    THEN [raised |-> "none", cls |-> "LinearAxis", kw |-> EmptyDict]
    ELSE IF axis_type = PyStr(<<"log">>)
    THEN [raised |-> "none", cls |-> "LogAxis", kw |-> EmptyDict]
    ELSE IF axis_type = PyStr(<<"datetime">>)
    THEN [raised |-> "none", cls |-> "DatetimeAxis", kw |-> EmptyDict]
    ELSE IF axis_type = PyStr(<<"mercator">>)
    THEN [raised |-> "none", cls |-> "MercatorAxis",
          kw |-> Put(EmptyDict, <<"dimension">>,
                     IF dim = 0 THEN PyStr(<<"lon">>) ELSE PyStr(<<"lat">>))]
    ELSE IF axis_type = PyStr(<<"auto">>)
    THEN IF range_input.cls = "FactorRange"
         THEN [raised |-> "none", cls |-> "CategoricalAxis", kw |-> EmptyDict]
         ELSE IF range_input.cls = "Range1d" /\ start_validates
         THEN [raised |-> "none", cls |-> "DatetimeAxis", kw |-> EmptyDict]
         ELSE [raised |-> "none", cls |-> "LinearAxis", kw |-> EmptyDict]
    ELSE IF axis_type[1] = "tuple" /\ Len(axis_type[2]) # 1
    THEN [raised |-> "TypeError", cls |-> "None", kw |-> EmptyDict]
    ELSE [raised |-> "ValueError", cls |-> "None", kw |-> EmptyDict]

AxisTypes ==
    {None} \cup {PyStr(<<t>>) : t \in {"linear", "log", "datetime", "mercator",
                                       "auto", "Linear", "categorical", "None"}}
    \cup {<<"tuple", <<>>>>, <<"tuple", <<"auto">>>>, <<"tuple", <<"1", "2">>>>}

Dims == {0, 1}

----------------------------------------------------------------------------
(* Tools: _known_tools, _tool_from_string, _process_tools_arg *)

MaxToolsLen == 3

(* an entry of _known_tools: the tool its lambda builds, or the name it is *)
(* an alias of                                                             *)
Maker(cls, arg) == [alias |-> "", cls |-> cls, arg |-> arg, tooltips |-> "n/a"]

Alias(name) == [alias |-> name, cls |-> "", arg |-> "", tooltips |-> "n/a"]

_known_tools ==
    [pan |-> Maker("PanTool", "dimensions=both"),
     xpan |-> Maker("PanTool", "dimensions=width"),
     ypan |-> Maker("PanTool", "dimensions=height"),
     xwheel_pan |-> Maker("WheelPanTool", "dimension=width"),
     ywheel_pan |-> Maker("WheelPanTool", "dimension=height"),
     wheel_zoom |-> Maker("WheelZoomTool", "dimensions=both"),
     xwheel_zoom |-> Maker("WheelZoomTool", "dimensions=width"),
     ywheel_zoom |-> Maker("WheelZoomTool", "dimensions=height"),
     zoom_in |-> Maker("ZoomInTool", "dimensions=both"),
     xzoom_in |-> Maker("ZoomInTool", "dimensions=width"),
     yzoom_in |-> Maker("ZoomInTool", "dimensions=height"),
     zoom_out |-> Maker("ZoomOutTool", "dimensions=both"),
     xzoom_out |-> Maker("ZoomOutTool", "dimensions=width"),
     yzoom_out |-> Maker("ZoomOutTool", "dimensions=height"),
     click |-> Maker("TapTool", "behavior=inspect"),
     tap |-> Maker("TapTool", ""),
     crosshair |-> Maker("CrosshairTool", ""),
     box_select |-> Maker("BoxSelectTool", ""),
     xbox_select |-> Maker("BoxSelectTool", "dimensions=width"),
     ybox_select |-> Maker("BoxSelectTool", "dimensions=height"),
     poly_select |-> Maker("PolySelectTool", ""),
     lasso_select |-> Maker("LassoSelectTool", ""),
     box_zoom |-> Maker("BoxZoomTool", "dimensions=both"),
     xbox_zoom |-> Maker("BoxZoomTool", "dimensions=width"),
     ybox_zoom |-> Maker("BoxZoomTool", "dimensions=height"),
     hover |-> [alias |-> "", cls |-> "HoverTool", arg |-> "",
                tooltips |-> "index,data,screen"],
     save |-> Maker("SaveTool", ""),
     previewsave |-> Alias("save"),
     undo |-> Maker("UndoTool", ""),
     redo |-> Maker("RedoTool", ""),
     reset |-> Maker("ResetTool", ""),
     help |-> Maker("HelpTool", ""),
     box_edit |-> Maker("BoxEditTool", ""),
     point_draw |-> Maker("PointDrawTool", ""),
     poly_draw |-> Maker("PolyDrawTool", ""),
     poly_edit |-> Maker("PolyEditTool", "")]

(* a Tool instance; id tells instances apart, 0 for one just built *)
ToolObj(cls, arg, tooltips, id) ==
    [cls |-> cls, arg |-> arg, tooltips |-> tooltips, id |-> id]

NoTool == ToolObj("", "", "n/a", -1)

(* the capitals A..Z with their small letters *)
SmallLetterOf ==
    [c \in {"A", "B", "C", "D", "E", "F", "G", "H", "I", "J", "K", "L", "M",
            "N", "O", "P", "Q", "R", "S", "T", "U", "V", "W", "X", "Y", "Z"} |->
        CASE c = "A" -> "a" [] c = "B" -> "b" [] c = "C" -> "c" [] c = "D" -> "d"
          [] c = "E" -> "e" [] c = "F" -> "f" [] c = "G" -> "g" [] c = "H" -> "h"
          [] c = "I" -> "i" [] c = "J" -> "j" [] c = "K" -> "k" [] c = "L" -> "l"
          [] c = "M" -> "m" [] c = "N" -> "n" [] c = "O" -> "o" [] c = "P" -> "p"
          [] c = "Q" -> "q" [] c = "R" -> "r" [] c = "S" -> "s" [] c = "T" -> "t"
          [] c = "U" -> "u" [] c = "V" -> "v" [] c = "W" -> "w" [] c = "X" -> "x"
          [] c = "Y" -> "y" [] c = "Z" -> "z"]

(* the name with its capitals A..Z folded to small letters *)
RECURSIVE fold_capitals(_)
fold_capitals(name) ==
    IF name = "" THEN ""
    ELSE (IF Head(name) \in DOMAIN SmallLetterOf
          THEN SmallLetterOf[Head(name)] ELSE Head(name))
         \o fold_capitals(Tail(name))

(* the function looking the name up with the capitals A..Z folded *)
tool_from_string_nocase(name) ==
    IF fold_capitals(name) \in DOMAIN _known_tools
    THEN LET entry == _known_tools[fold_capitals(name)]
             tool_fn == IF entry.alias # "" THEN _known_tools[entry.alias]
                        ELSE entry
         IN  [raised |-> "none",
              tool |-> ToolObj(tool_fn.cls, tool_fn.arg, tool_fn.tooltips, 0)]
    ELSE [raised |-> "ValueError", tool |-> NoTool]

(* tool_fn is the table entry after following an alias; the tool is the    *)
(* one its lambda builds                                                   *)
_tool_from_string(name) ==
    IF name \in DOMAIN _known_tools
    THEN LET entry == _known_tools[name]
             tool_fn == IF entry.alias # "" THEN _known_tools[entry.alias]
                        ELSE entry
         IN  [raised |-> "none",
              tool |-> ToolObj(tool_fn.cls, tool_fn.arg, tool_fn.tooltips, 0)]
    ELSE [raised |-> "ValueError", tool |-> NoTool]

(* A str holding tool names is the sequence of its atoms: a run of name    *)
(* characters, a comma "," or a blank " ".                                 *)
IsBlank(atom) == atom = " "

RECURSIVE lstrip(_)
lstrip(str) ==
    IF str # <<>> /\ IsBlank(Head(str)) THEN lstrip(Tail(str)) ELSE str

RECURSIVE rstrip(_)
rstrip(str) ==
    IF str # <<>> /\ IsBlank(str[Len(str)])
    THEN rstrip(SubSeq(str, 1, Len(str) - 1))
    ELSE str

strip(str) == rstrip(lstrip(str))

(* the text of a str *)
RECURSIVE text(_)
text(str) == IF str = <<>> THEN "" ELSE Head(str) \o text(Tail(str))

(* the pieces between the commas of str *)
RECURSIVE comma_pieces(_, _)
comma_pieces(str, piece) ==
    IF str = <<>> THEN <<piece>>
    ELSE IF Head(str) = "," THEN <<piece>> \o comma_pieces(Tail(str), <<>>)
    ELSE comma_pieces(Tail(str), Append(piece, Head(str)))

(* re.split(r"\s*,\s*", tools.strip()): the separator takes the blanks on  *)
(* both sides of each comma                                                *)
re_split(tools) ==
    LET pieces == comma_pieces(strip(tools), <<>>)
    IN  [i \in DOMAIN pieces |-> text(strip(pieces[i]))]

(* the first loop, over a list or tuple: acc holds tool_objs and           *)
(* temp_tool_str                                                           *)
RECURSIVE tools_list_loop(_, _)
tools_list_loop(tools, acc) ==
    IF tools = <<>> \/ acc.raised # "none" THEN acc
    ELSE LET tool == Head(tools)
         IN  tools_list_loop(Tail(tools),
                 IF tool.kind = "Tool"
                 THEN [acc EXCEPT !.tool_objs = Append(@, tool.obj)]
                 ELSE IF tool.kind = "str"
                 THEN [acc EXCEPT !.temp_tool_str = @ \o tool.str \o <<",">>]
                 ELSE [acc EXCEPT !.raised = "ValueError"])

NewToolId(created) == 100 + created

(* the second loop keeping in tool_map the tool of the first occurrence of *)
(* a name                                                                  *)
RECURSIVE tools_names_loop_first_wins(_, _)
tools_names_loop_first_wins(names, acc) ==
    IF names = <<>> \/ acc.raised # "none" THEN acc
    ELSE LET tool == Head(names)
             made == _tool_from_string(tool)
             tool_obj == [made.tool EXCEPT !.id = NewToolId(acc.created + 1)]
         IN  tools_names_loop_first_wins(Tail(names),
                 IF tool = "" THEN acc
                 ELSE IF made.raised # "none"
                 THEN [acc EXCEPT !.raised = made.raised]
                 ELSE [acc EXCEPT !.tool_objs = Append(@, tool_obj),
                                  !.tool_map = [n \in (DOMAIN @) \cup {tool} |->
                                                  IF n \in DOMAIN @ THEN @[n]
                                                  ELSE tool_obj],
                                  !.created = @ + 1])

(* the second loop, over the names: acc holds tool_objs, tool_map and the  *)
(* number of tools built so far                                            *)
RECURSIVE tools_names_loop(_, _)
tools_names_loop(names, acc) ==
    IF names = <<>> \/ acc.raised # "none" THEN acc
    ELSE LET tool == Head(names)
             made == _tool_from_string(tool)
             tool_obj == [made.tool EXCEPT !.id = NewToolId(acc.created + 1)]
         IN  tools_names_loop(Tail(names),
                 IF tool = "" THEN acc
                 ELSE IF made.raised # "none"
                 THEN [acc EXCEPT !.raised = made.raised]
                 ELSE [acc EXCEPT !.tool_objs = Append(@, tool_obj),
                                  !.tool_map = [n \in (DOMAIN @) \cup {tool} |->
                                                  IF n = tool THEN tool_obj ELSE @[n]],
                                  !.created = @ + 1])

(* sets tooltips on the instance with the given id wherever it is held *)
SetTooltips(obj, id, tooltips) ==
    IF obj.id = id THEN [obj EXCEPT !.tooltips = tooltips] ELSE obj

HoverIndexes(tool_objs) == {i \in DOMAIN tool_objs : tool_objs[i].cls = "HoverTool"}

Min(S) == CHOOSE x \in S : \A y \in S : x <= y

NoTooltips == "None"

(* the loop without its break: every HoverTool gets the tooltips *)
apply_tooltips_every_hover(acc, tooltips) ==
    IF tooltips = NoTooltips THEN acc
    ELSE IF HoverIndexes(acc.tool_objs) # {}
    THEN [acc EXCEPT
            !.tool_objs = [i \in DOMAIN @ |->
                             IF @[i].cls = "HoverTool"
                             THEN [@[i] EXCEPT !.tooltips = tooltips] ELSE @[i]],
            !.tool_map = [n \in DOMAIN @ |->
                             IF @[n].cls = "HoverTool"
                             THEN [@[n] EXCEPT !.tooltips = tooltips] ELSE @[n]]]
    ELSE [acc EXCEPT !.tool_objs =
             Append(@, ToolObj("HoverTool", "", tooltips, NewToolId(acc.created + 1)))]

(* the for ... else over tool_objs when tooltips is given *)
apply_tooltips(acc, tooltips) ==
    IF tooltips = NoTooltips THEN acc
    ELSE IF HoverIndexes(acc.tool_objs) # {}
    THEN LET id == acc.tool_objs[Min(HoverIndexes(acc.tool_objs))].id
         IN  [acc EXCEPT
                !.tool_objs = [i \in DOMAIN @ |-> SetTooltips(@[i], id, tooltips)],
                !.tool_map = [n \in DOMAIN @ |-> SetTooltips(@[n], id, tooltips)]]
    ELSE [acc EXCEPT !.tool_objs =
             Append(@, ToolObj("HoverTool", "", tooltips, NewToolId(acc.created + 1)))]

(* tools is [kind |-> "str", str |-> atoms] or [kind |-> "list", items |-> *)
(* elements], an element being a Tool instance, a str or something else.   *)
(* tool_objs and tool_map are returned only when raised is "none".         *)
_process_tools_arg(tools, tooltips) ==
    LET start == [raised |-> "none", tool_objs |-> <<>>, temp_tool_str |-> <<>>]
        first == IF tools.kind = "list" THEN tools_list_loop(tools.items, start)
                 ELSE start
        tools_str == IF tools.kind = "list" THEN first.temp_tool_str ELSE tools.str
        second == tools_names_loop(re_split(tools_str),
                      [raised |-> first.raised, tool_objs |-> first.tool_objs,
                       tool_map |-> [n \in {} |-> NoTool], created |-> 0])
        last == IF second.raised = "none" THEN apply_tooltips(second, tooltips)
                ELSE second
    IN  [raised |-> last.raised, tool_objs |-> last.tool_objs,
         tool_map |-> last.tool_map]

ToolNames == {"pan", "hover", "previewsave", "save", "Pan", "zoom", ""}

ToolAtoms == {"pan", "hover", "previewsave", "Pan", ",", " "}

(* Tool instances that exist before a call *)
GivenTools == {ToolObj("PanTool", "dimensions=both", "n/a", 1),
               ToolObj("HoverTool", "", "mine", 2)}

ToolsListItems ==
    {[kind |-> "Tool", obj |-> t, str |-> <<>>] : t \in GivenTools}
    \cup {[kind |-> "str", obj |-> NoTool, str |-> st]
          : st \in {<<"pan">>, <<"hover">>, <<"Pan">>, <<>>}}
    \cup {[kind |-> "other", obj |-> NoTool, str |-> <<>>]}

ToolsArgs ==
    {[kind |-> "str", str |-> st, items |-> <<>>]
     : st \in SeqsUpTo(ToolAtoms, MaxToolsLen)}
    \cup {[kind |-> "list", str |-> <<>>, items |-> it]
          : it \in SeqsUpTo(ToolsListItems, MaxToolsLen)}

TooltipsArgs == {NoTooltips, "user"}

----------------------------------------------------------------------------
(* Active tools: _process_active_tools *)

(* A value given for active_drag, active_inspect, active_scroll or         *)
(* active_tap: kind is "auto" (the str 'auto'), "None", "Tool" (obj), "str" *)
(* (name, another str), "list" or "tuple" (items, each a Tool or not), or  *)
(* "int" (a value that is hashable and not iterable).                      *)
ActiveValue(kind, name, obj, items) ==
    [kind |-> kind, name |-> name, obj |-> obj, items |-> items]

Auto == ActiveValue("auto", "auto", NoTool, <<>>)

ActiveNone == ActiveValue("None", "", NoTool, <<>>)

ActiveTool(obj) == ActiveValue("Tool", "", obj, <<>>)

ActiveStr(name) == ActiveValue("str", name, NoTool, <<>>)

(* active in ['auto', None] or isinstance(active, Tool) *)
is_auto_none_or_tool(active) == active.kind \in {"auto", "None", "Tool"}

(* all(isinstance(t, Tool) for t in active_inspect): iterating a str gives *)
(* its characters, which are not Tools; a value that cannot be iterated    *)
(* raises TypeError                                                        *)
all_tools(active) ==
    CASE active.kind = "int" -> "TypeError"
      [] active.kind \in {"str", "auto"} -> IF active.name = "" THEN "True" ELSE "False"
      [] OTHER -> IF \A i \in DOMAIN active.items : active.items[i].kind = "Tool"
                  THEN "True" ELSE "False"

(* hash(active): a list has no hash, a tuple hashes its items *)
RECURSIVE hashable(_)
hashable(active) ==
    CASE active.kind = "list" -> FALSE
      [] active.kind = "tuple" ->
            \A i \in DOMAIN active.items : hashable(active.items[i])
      [] OTHER -> TRUE

(* active in tool_map: the lookup hashes the value, and a value that       *)
(* cannot be hashed raises TypeError                                       *)
in_tool_map(active, tool_map) ==
    CASE ~hashable(active) -> "TypeError"
      [] active.kind \in {"str", "auto"} ->
            IF active.name \in DOMAIN tool_map THEN "True" ELSE "False"
      [] OTHER -> "False"

(* "Got unknown %r for ..." % reported: a tuple is taken as the list of    *)
(* the format's arguments, so a tuple of one item formats that item and    *)
(* any other tuple raises TypeError instead of the ValueError              *)
format_reported(reported) ==
    IF reported.kind = "tuple"
    THEN IF Len(reported.items) = 1
         THEN [raised |-> "ValueError", reported |-> reported.items[1]]
         ELSE [raised |-> "TypeError", reported |-> reported]
    ELSE [raised |-> "ValueError", reported |-> reported]

(* one of the four if/elif/else blocks: st holds the toolbar and what was  *)
(* raised; reported is the value the block formats into its message        *)
active_block(st, tool_map, gesture, active, reported, collection_allowed) ==
    IF st.raised # "none" THEN st
    ELSE IF is_auto_none_or_tool(active)
    THEN [st EXCEPT !.toolbar[gesture] = active]
    ELSE IF collection_allowed /\ all_tools(active) = "TypeError"
    THEN [st EXCEPT !.raised = "TypeError", !.gesture = gesture]
    ELSE IF collection_allowed /\ all_tools(active) = "True"
    THEN [st EXCEPT !.toolbar[gesture] = active]
    ELSE IF in_tool_map(active, tool_map) = "TypeError"
    THEN [st EXCEPT !.raised = "TypeError", !.gesture = gesture]
    ELSE IF in_tool_map(active, tool_map) = "True"
    THEN [st EXCEPT !.toolbar[gesture] = ActiveTool(tool_map[active.name])]
    ELSE IF format_reported(reported).raised = "TypeError"
    THEN [st EXCEPT !.raised = "TypeError", !.gesture = gesture]
    ELSE [st EXCEPT !.raised = "ValueError", !.gesture = gesture,
                    !.reported = format_reported(reported).reported]

(* the function with the scroll block moved before the inspect block *)
process_active_tools_scroll_first(toolbar, tool_map, active_drag, active_inspect, active_scroll, active_tap) ==
    LET s0 == [raised |-> "none", gesture |-> "", reported |-> ActiveNone,
               toolbar |-> toolbar]
        s1 == active_block(s0, tool_map, "active_drag", active_drag,
                           active_drag, FALSE)
        s2 == active_block(s1, tool_map, "active_scroll", active_scroll,
                           active_scroll, FALSE)
        s3 == active_block(s2, tool_map, "active_inspect", active_inspect,
                           active_scroll, TRUE)
    IN  active_block(s3, tool_map, "active_tap", active_tap, active_tap, FALSE)

(* toolbar is the Toolbar as the call leaves it; gesture and reported tell *)
(* which block raised and the value in its message                         *)
_process_active_tools(toolbar, tool_map, active_drag, active_inspect, active_scroll, active_tap) ==
    LET s0 == [raised |-> "none", gesture |-> "", reported |-> ActiveNone,
               toolbar |-> toolbar]
        s1 == active_block(s0, tool_map, "active_drag", active_drag,
                           active_drag, FALSE)
        s2 == active_block(s1, tool_map, "active_inspect", active_inspect,
                           active_scroll, TRUE)
        s3 == active_block(s2, tool_map, "active_scroll", active_scroll,
                           active_scroll, FALSE)
    IN  active_block(s3, tool_map, "active_tap", active_tap, active_tap, FALSE)

(* a Toolbar as the framework builds it *)
NewToolbar == [active_drag |-> Auto, active_inspect |-> Auto,
               active_scroll |-> Auto, active_tap |-> Auto]

(* tool maps as _process_tools_arg returns them *)
ToolMaps == {_process_tools_arg([kind |-> "str", str |-> st, items |-> <<>>],
                                NoTooltips).tool_map
             : st \in {<<>>, <<"pan", ",", "hover">>}}

NotATool == ActiveValue("int", "", NoTool, <<>>)

ActiveValues ==
    {Auto, ActiveNone, ActiveStr("pan"), ActiveStr("zoom"),
     ActiveTool(ToolObj("PanTool", "dimensions=both", "n/a", 1)),
     ActiveValue("list", "", NoTool, <<>>),
     ActiveValue("tuple", "", NoTool, <<>>),
     ActiveValue("tuple", "", NoTool, <<NotATool>>),
     ActiveValue("tuple", "", NoTool, <<ActiveValue("list", "", NoTool, <<>>)>>)}

ActiveInspectValues ==
    {Auto, ActiveNone, ActiveStr("hover"), ActiveStr("zoom"), ActiveStr(""),
     ActiveTool(ToolObj("HoverTool", "", "mine", 2)),
     ActiveValue("list", "", NoTool,
                 <<ActiveTool(ToolObj("HoverTool", "", "mine", 2))>>),
     ActiveValue("tuple", "", NoTool, <<NotATool>>),
     ActiveValue("tuple", "", NoTool, <<ActiveValue("list", "", NoTool, <<>>)>>),
     ActiveValue("list", "", NoTool, <<NotATool>>),
     NotATool}

----------------------------------------------------------------------------
(* Data sources, renderer arguments, sequence literals, glyphs *)

(* the data specs of the glyph classes with the kind of their property, as *)
(* dataspecs_with_props() would report them                                *)
GlyphDataspecs ==
    [Rect |-> (<<"x">> :> "NumberSpec") @@ (<<"width">> :> "NumberSpec")
              @@ (<<"line", "color">> :> "ColorSpec")
              @@ (<<"line", "width">> :> "NumberSpec")
              @@ (<<"fill", "alpha">> :> "NumberSpec"),
     Text |-> (<<"x">> :> "NumberSpec") @@ (<<"text", "color">> :> "ColorSpec")]

(* A data source is <<kind, columns, origin>>: kind "cds" for a            *)
(* ColumnarDataSource, "data" for raw data that ColumnDataSource accepts,  *)
(* "bad" for a value it rejects; columns maps column names to their data   *)
DataSource(kind, columns, origin) == <<kind, columns, origin>>

NewColumnDataSource == DataSource("cds", EmptyDict, "new")

IsNone(v) == v[1] = "None"

_RENDERER_ARGS == <<<<"name">>, <<"x", "range", "name">>, <<"y", "range", "name">>,
                    <<"level">>, <<"view">>, <<"visible">>, <<"muted">>>>

(* result is the returned dict, kwargs the argument as the pops leave it;  *)
(* a missing source gives a new ColumnDataSource                           *)
_pop_renderer_args(kwargs) ==
    LET present == {a \in Range(_RENDERER_ARGS) : Has(kwargs, a)}
    IN  [result |-> Put([a \in present |-> kwargs[a]], <<"data", "source">>,
                        IF Has(kwargs, <<"source">>) THEN kwargs[<<"source">>]
                        ELSE NewColumnDataSource),
         kwargs |-> PopAll(kwargs, present \cup {<<"source">>})]

(* Python types of the values: num and None are not iterable *)
IsIterable(val) == val[1] \in {"str", "dict", "list", "tuple", "ndarray1", "ndarray2"}

NumTokens == {"1", "2", "3"}

(* a tuple of 3 or 4 numbers *)
IsColorTuple(val) ==
    /\ val[1] = "tuple"
    /\ Len(val[2]) \in {3, 4}
    /\ \A i \in DOMAIN val[2] : val[2][i] \in NumTokens

(* source.add(val, name=var) *)
source_add(source, val, var) == DataSource(source[1], Put(source[2], var, val[2]), source[3])

(* the loop body for the item var of kwargs: acc holds kwargs, source, the *)
(* list of incompatible names and what was raised                          *)
sequence_literal_step(dataspecs, is_user_source, acc, var) ==
    LET val == acc.kwargs[var]
    IN  IF acc.raised # "none" THEN acc
        ELSE IF ~IsIterable(val) THEN acc
        ELSE IF val[1] = "dict" THEN acc
        ELSE IF var \notin DOMAIN dataspecs THEN acc
        ELSE IF val[1] = "str" THEN acc
        ELSE IF dataspecs[var] = "ColorSpec" /\ IsColorTuple(val) THEN acc
        ELSE IF val[1] = "ndarray2" THEN [acc EXCEPT !.raised = "RuntimeError"]
        ELSE IF is_user_source
        THEN [acc EXCEPT !.incompatible = Append(@, var)]
        ELSE IF IsNone(acc.source) THEN [acc EXCEPT !.raised = "AttributeError"]
        ELSE [acc EXCEPT !.source = source_add(@, val, var),
                         !.kwargs = Put(@, var, PyStr(var))]

RECURSIVE sequence_literal_loop(_, _, _, _)
sequence_literal_loop(dataspecs, is_user_source, acc, order) ==
    IF order = <<>> THEN acc
    ELSE sequence_literal_loop(dataspecs, is_user_source,
             sequence_literal_step(dataspecs, is_user_source, acc, Head(order)),
             Tail(order))

(* order is the order in which kwargs.items() yields the keys *)
_process_sequence_literals(dataspecs, kwargs, source, is_user_source, order) ==
    sequence_literal_loop(dataspecs, is_user_source,
        [raised |-> "none", incompatible |-> <<>>, kwargs |-> kwargs,
         source |-> source], order)

(* glyphclass(kws) raises AttributeError for a keyword that is no property *)
(* of the class; a glyph is kept as its class and the keywords it got      *)
NoGlyph == [cls |-> "None", kws |-> EmptyDict, raised |-> "none"]

Update(kws, extra) ==
    [k \in (DOMAIN kws) \cup (DOMAIN extra) |->
        IF k \in DOMAIN extra THEN extra[k] ELSE kws[k]]

(* extra is [given |-> FALSE] for None, else [given |-> TRUE, ca |-> dict] *)
_make_glyph(glyphclass, kws, extra) ==
    IF ~extra.given THEN NoGlyph
    ELSE LET all == Update(kws, extra.ca)
         IN  [cls |-> glyphclass, kws |-> all,
              raised |-> IF DOMAIN all \subseteq GlyphProperties[glyphclass]
                         THEN "none" ELSE "AttributeError"]

----------------------------------------------------------------------------
(* Legends *)

value(label) == <<"value", label>>

field(label) == <<"field", label>>

LegendItem(label, renderers, index) ==
    [label |-> label, renderers |-> renderers, index |-> index]

(* plot.select(type=Legend) is plot.legends; a legend is its list of items *)
_get_or_create_legend(p) ==
    IF Len(p.legends) = 0
    THEN [raised |-> "none", plot |-> [p EXCEPT !.legends = <<<<>>>>], at |-> 1]
    ELSE IF Len(p.legends) = 1
    THEN [raised |-> "none", plot |-> p, at |-> 1]
    ELSE [raised |-> "RuntimeError", plot |-> p, at |-> 0]

(* the position of the first item with the label, 0 for None *)
_find_legend_item(label, legend) ==
    IF \E i \in DOMAIN legend : legend[i].label = label
    THEN Min({i \in DOMAIN legend : legend[i].label = label})
    ELSE 0

(* the helper appending a new item without looking for the label *)
add_to_legend_always_new(label, legend, glyph_renderer) ==
    Append(legend, LegendItem(label, <<glyph_renderer.id>>, -1))

(* appends the renderer to the item found, or a new item to the legend *)
add_to_legend(label, legend, glyph_renderer) ==
    LET item == _find_legend_item(label, legend)
    IN  IF item # 0
        THEN [legend EXCEPT ![item].renderers = Append(@, glyph_renderer.id)]
        ELSE Append(legend, LegendItem(label, <<glyph_renderer.id>>, -1))

_handle_legend_field(label, legend, glyph_renderer) ==
    IF label[1] # "str" THEN [raised |-> "ValueError", legend |-> legend]
    ELSE [raised |-> "none",
          legend |-> add_to_legend(field(label[2]), legend, glyph_renderer)]

_handle_legend_label(label, legend, glyph_renderer) ==
    IF label[1] # "str" THEN [raised |-> "ValueError", legend |-> legend]
    ELSE [raised |-> "none",
          legend |-> add_to_legend(value(label[2]), legend, glyph_renderer)]

(* np.unique(column, return_index=1): the distinct values in ascending     *)
(* order, each with the position (from 0) of its first occurrence          *)
RECURSIVE unique(_, _)
unique(column, vals) ==
    IF vals = {} THEN <<>>
    ELSE LET least == CHOOSE x \in vals : \A y \in vals : StrRank[x] <= StrRank[y]
         IN  <<<<least, Min({i \in DOMAIN column : column[i] = least}) - 1>>>>
             \o unique(column, vals \ {least})

_handle_legend_group(label, legend, glyph_renderer) ==
    LET source == glyph_renderer.data_source
    IN  IF label[1] # "str" THEN [raised |-> "ValueError", legend |-> legend]
        ELSE IF IsNone(source) THEN [raised |-> "ValueError", legend |-> legend]
        ELSE IF label[2] \notin DOMAIN source[2]
        THEN [raised |-> "ValueError", legend |-> legend]
        ELSE LET column == source[2][label[2]]
                 found == unique(column, Range(column))
             IN  [raised |-> "none",
                  legend |-> legend \o
                     [i \in DOMAIN found |->
                        LegendItem(value(<<found[i][1]>>), <<glyph_renderer.id>>,
                                   found[i][2])]]

(* a dict label is <<"dict", <<key, text>>>> when it has the single key    *)
(* field or value, <<"dict", <<>>>> otherwise.  The message for a label     *)
(* that is no str and no dict is built with "...%s" % label, which takes a  *)
(* tuple as the list of the format's arguments: a tuple of other than one   *)
(* item raises TypeError instead of the ValueError                          *)
_handle_legend_deprecated(label, legend, glyph_renderer) ==
    IF label[1] = "tuple" /\ Len(label[2]) # 1
    THEN [raised |-> "TypeError", legend |-> legend]
    ELSE IF label[1] \notin {"str", "dict"}
    THEN [raised |-> "ValueError", legend |-> legend]
    ELSE IF label[1] = "dict"
    THEN IF Len(label[2]) = 2 /\ label[2][1] = "field"
         THEN _handle_legend_field(PyStr(<<label[2][2]>>), legend, glyph_renderer)
         ELSE IF Len(label[2]) = 2 /\ label[2][1] = "value"
         THEN _handle_legend_label(PyStr(<<label[2][2]>>), legend, glyph_renderer)
         ELSE [raised |-> "ValueError", legend |-> legend]
    ELSE LET source == glyph_renderer.data_source
         IN  IF ~IsNone(source) /\ label[2] \in DOMAIN source[2]
             THEN _handle_legend_field(label, legend, glyph_renderer)
             ELSE _handle_legend_label(label, legend, glyph_renderer)

(* legend_kwarg holds one item; its handler is looked up in                *)
(* _LEGEND_KWARG_HANDLERS                                                  *)
_update_legend(p, legend_kwarg, glyph_renderer) ==
    LET got == _get_or_create_legend(p)
        kwarg == CHOOSE k \in DOMAIN legend_kwarg : TRUE
        val == legend_kwarg[kwarg]
        handled ==
            CASE kwarg = <<"legend">> ->
                    _handle_legend_deprecated(val, got.plot.legends[got.at], glyph_renderer)
              [] kwarg = <<"legend", "label">> ->
                    _handle_legend_label(val, got.plot.legends[got.at], glyph_renderer)
              [] kwarg = <<"legend", "field">> ->
                    _handle_legend_field(val, got.plot.legends[got.at], glyph_renderer)
              [] kwarg = <<"legend", "group">> ->
                    _handle_legend_group(val, got.plot.legends[got.at], glyph_renderer)
    IN  IF got.raised # "none" THEN [raised |-> got.raised, plot |-> got.plot]
        ELSE [raised |-> handled.raised,
              plot |-> [got.plot EXCEPT !.legends[got.at] = handled.legend]]

----------------------------------------------------------------------------
(* The glyph method built by _glyph_function *)

MaxKwargs == 2

NoRenderer == [id |-> 0]

(* any(x.startswith(prefix) for x in kwargs), for a prefix ending in "_" *)
any_startswith(kwargs, prefix) ==
    \E x \in DOMAIN kwargs : Len(x) >= 2 /\ x[1] = prefix

(* the sequence order without the names outside keys *)
RECURSIVE Restrict(_, _)
Restrict(order, keys) ==
    IF order = <<>> THEN <<>>
    ELSE IF Head(order) \in keys THEN <<Head(order)>> \o Restrict(Tail(order), keys)
    ELSE Restrict(Tail(order), keys)

(* the conversion of a user source at the top of func: raw data becomes a  *)
(* new ColumnDataSource put back into kwargs; for a value that             *)
(* ColumnDataSource rejects the handler reads err.message, which a         *)
(* ValueError does not have                                                *)
convert_source(kwargs) ==
    LET given == Has(kwargs, <<"source">>) /\ ~IsNone(kwargs[<<"source">>])
        source == kwargs[<<"source">>]
    IN  IF ~given \/ source[1] = "cds"
        THEN [raised |-> "none", kwargs |-> kwargs, is_user_source |-> given]
        ELSE IF source[1] = "data"
        THEN [raised |-> "none",
              kwargs |-> Put(kwargs, <<"source">>,
                             DataSource("cds", source[2], "converted")),
              is_user_source |-> TRUE]
        ELSE [raised |-> "AttributeError", kwargs |-> kwargs, is_user_source |-> TRUE]

(* the optional glyph computed whether or not a keyword has the prefix *)
optional_visuals_always(glyphprops, st, prefix, order) ==
    LET pv == _pop_visuals(glyphprops, st.kwargs, <<prefix>>, st.glyph_ca,
                           st.override_defaults, order)
    IN  [kwargs |-> pv.props, glyph_ca |-> pv.defaults,
         override_defaults |-> pv.override_defaults,
         extra |-> [given |-> TRUE, ca |-> pv.result]]

(* one of the optional glyphs: _pop_visuals when a keyword starts with the *)
(* prefix, None otherwise; st holds kwargs, glyph_ca and the dict bound to *)
(* an omitted override_defaults                                            *)
optional_visuals(glyphprops, st, prefix, order) ==
    IF any_startswith(st.kwargs, prefix)
    THEN LET pv == _pop_visuals(glyphprops, st.kwargs, <<prefix>>, st.glyph_ca,
                                st.override_defaults, order)
         IN  [kwargs |-> pv.props, glyph_ca |-> pv.defaults,
              override_defaults |-> pv.override_defaults,
              extra |-> [given |-> TRUE, ca |-> pv.result]]
    ELSE [kwargs |-> st.kwargs, glyph_ca |-> st.glyph_ca,
          override_defaults |-> st.override_defaults,
          extra |-> [given |-> FALSE, ca |-> EmptyDict]]

(* func(self, kwargs) is modelled statement by statement: each operator   *)
(* below takes the frame f of the call's local variables and returns it    *)
(* with the variables its statement binds.  A statement that raises        *)
(* replaces the frame by what the call leaves behind; the statements after *)
(* it pass that on untouched.                                              *)

(* the call leaves with exception e: no renderer, the plot, the data       *)
(* source, the dicts bound to omitted arguments and the call's kwargs and  *)
(* glyph_ca (empty while not yet made) as they are then                    *)
Raise(e, self, source, fd, kwargs, glyph_ca) ==
    [raised |-> e,
     ret |-> [raised |-> e, renderer |-> NoRenderer, plot |-> self,
              source |-> source, func_defaults |-> fd,
              kwargs |-> kwargs, glyph_ca |-> glyph_ca]]

(* the source keyword as the call has it before _pop_renderer_args *)
source_kwarg(kwargs) ==
    IF Has(kwargs, <<"source">>) THEN kwargs[<<"source">>] ELSE None

(* the dicts bound to omitted _pop_visuals arguments once the main glyph's *)
(* visuals are popped, the second one as the optional glyphs leave it      *)
func_defaults_after(f, override_defaults) ==
    [defaults |-> f.pv.defaults, override_defaults |-> override_defaults]

(* Convert data source, if necessary *)
func_source(self, fd, conv) ==
    IF conv.raised # "none"
    THEN Raise(conv.raised, self, source_kwarg(conv.kwargs), fd,
               conv.kwargs, EmptyDict)
    ELSE [raised |-> "none", conv |-> conv]

(* legend_kwarg = _pop_legend_kwarg(kwargs) *)
func_legend_kwarg(self, fd, f, lg) ==
    IF lg.raised # "none"
    THEN Raise(lg.raised, self, source_kwarg(f.conv.kwargs), fd,
               lg.kwargs, EmptyDict)
    ELSE f @@ [lg |-> lg]

(* renderer_kws = _pop_renderer_args(kwargs) *)
func_renderer_args(f) ==
    f @@ [ra |-> _pop_renderer_args(f.lg.kwargs)]

(* glyph_ca = _pop_visuals(glyphclass, kwargs) *)
func_visuals(gp, fd, vorder, f) ==
    f @@ [pv |-> _pop_visuals(gp, f.ra.kwargs, <<>>, fd.defaults,
                              fd.override_defaults, vorder)]

(* the first _process_sequence_literals call, on kwargs *)
func_literals_kwargs(self, f, sl) ==
    IF sl.raised # "none"
    THEN Raise(sl.raised, self, sl.source,
               func_defaults_after(f, f.pv.override_defaults),
               sl.kwargs, f.pv.result)
    ELSE f @@ [sl1 |-> sl]

(* the second _process_sequence_literals call, on glyph_ca *)
func_literals_glyph_ca(self, f, sl) ==
    IF sl.raised # "none"
    THEN Raise(sl.raised, self, sl.source,
               func_defaults_after(f, f.pv.override_defaults),
               f.sl1.kwargs, sl.kwargs)
    ELSE f @@ [sl2 |-> sl]

(* if incompatible_literal_spec_values: raise RuntimeError *)
func_incompatible(self, f) ==
    IF f.sl1.incompatible \o f.sl2.incompatible # <<>>
    THEN Raise("RuntimeError", self, f.sl2.source,
               func_defaults_after(f, f.pv.override_defaults),
               f.sl1.kwargs, f.sl2.kwargs)
    ELSE f

(* the nonselection glyph, always set *)
func_nonselection(gp, vorder, f) ==
    f @@ [ns |-> _pop_visuals(gp, f.sl1.kwargs, <<"nonselection">>, f.sl2.kwargs,
                              Put(EmptyDict, <<"alpha">>, PyNum(<<"0.1">>)), vorder)]

(* the selection, hover and muted glyphs, if any properties were given *)
func_selection(gp, vorder, f) ==
    f @@ [sel |-> optional_visuals(gp,
                      [kwargs |-> f.ns.props, glyph_ca |-> f.ns.defaults,
                       override_defaults |-> f.pv.override_defaults],
                      "selection", vorder)]

func_hover(gp, vorder, f) ==
    f @@ [hov |-> optional_visuals(gp, f.sel, "hover", vorder)]

func_muted(gp, vorder, f) ==
    f @@ [mut |-> optional_visuals(gp, f.hov, "muted", vorder)]

(* the five _make_glyph calls *)
func_glyphs(glyphclass, f) ==
    f @@ [glyph |-> _make_glyph(glyphclass, f.mut.kwargs,
                                [given |-> TRUE, ca |-> f.mut.glyph_ca]),
          nsglyph |-> _make_glyph(glyphclass, f.mut.kwargs,
                                  [given |-> TRUE, ca |-> f.ns.result]),
          sglyph |-> _make_glyph(glyphclass, f.mut.kwargs, f.sel.extra),
          hglyph |-> _make_glyph(glyphclass, f.mut.kwargs, f.hov.extra),
          mglyph |-> _make_glyph(glyphclass, f.mut.kwargs, f.mut.extra)]

(* glyph_renderer = GlyphRenderer(...), reached when every glyph was built *)
func_renderer(self, f) ==
    IF \E g \in {f.glyph, f.nsglyph, f.sglyph, f.hglyph, f.mglyph} :
          g.raised # "none"
    THEN Raise("AttributeError", self, f.sl2.source,
               func_defaults_after(f, f.mut.override_defaults),
               f.mut.kwargs, f.sl2.kwargs)
    ELSE f @@ [glyph_renderer |->
                 [id |-> Len(self.renderers) + 1, glyph |-> f.glyph,
                  nonselection_glyph |-> f.nsglyph, selection_glyph |-> f.sglyph,
                  hover_glyph |-> f.hglyph, muted_glyph |-> f.mglyph,
                  data_source |-> f.sl2.source,
                  kws |-> Pop(f.ra.result, <<"data", "source">>)]]

(* if legend_kwarg: _update_legend(self, legend_kwarg, glyph_renderer) *)
func_legend(self, f) ==
    IF DOMAIN f.lg.result # {}
    THEN _update_legend(self, f.lg.result, f.glyph_renderer)
    ELSE [raised |-> "none", plot |-> self]

(* self.renderers.append(glyph_renderer); return glyph_renderer *)
func_return(f, lu) ==
    IF lu.raised # "none"
    THEN Raise(lu.raised, lu.plot, f.sl2.source,
               func_defaults_after(f, f.mut.override_defaults),
               f.mut.kwargs, f.sl2.kwargs).ret
    ELSE [raised |-> "none", renderer |-> f.glyph_renderer,
          plot |-> [lu.plot EXCEPT !.renderers = Append(@, f.glyph_renderer.id)],
          source |-> f.sl2.source,
          func_defaults |-> func_defaults_after(f, f.mut.override_defaults),
          kwargs |-> f.mut.kwargs, glyph_ca |-> f.sl2.kwargs]

(* func up to the main glyph's visuals *)
func_to_visuals(gp, self, kwargs, fd, vorder) ==
    LET f1 == func_source(self, fd, convert_source(kwargs))
        f2 == IF f1.raised # "none" THEN f1
              ELSE func_legend_kwarg(self, fd, f1, _pop_legend_kwarg(f1.conv.kwargs))
    IN  IF f2.raised # "none" THEN f2
        ELSE func_visuals(gp, fd, vorder, func_renderer_args(f2))

(* func from there to the check of the sequence literals *)
func_to_literals(ds, self, vorder, korder, f) ==
    IF f.raised # "none" THEN f
    ELSE LET f1 == func_literals_kwargs(self, f,
                       _process_sequence_literals(ds, f.pv.props,
                           f.ra.result[<<"data", "source">>], f.conv.is_user_source,
                           Restrict(korder, DOMAIN f.pv.props)))
             f2 == IF f1.raised # "none" THEN f1
                   ELSE func_literals_glyph_ca(self, f1,
                            _process_sequence_literals(ds, f1.pv.result,
                                f1.sl1.source, f1.conv.is_user_source,
                                Restrict(vorder, DOMAIN f1.pv.result)))
         IN  IF f2.raised # "none" THEN f2 ELSE func_incompatible(self, f2)

(* func from there to the construction of the renderer *)
func_to_renderer(glyphclass, gp, self, vorder, f) ==
    IF f.raised # "none" THEN f
    ELSE func_renderer(self,
             func_glyphs(glyphclass,
                 func_muted(gp, vorder,
                     func_hover(gp, vorder,
                         func_selection(gp, vorder,
                             func_nonselection(gp, vorder, f))))))

(* func from there to its return *)
func_to_return(self, f) ==
    IF f.raised # "none" THEN f.ret ELSE func_return(f, func_legend(self, f))

(* func(self, kwargs) for the glyph class: self is the plot, fd the dicts  *)
(* bound to omitted _pop_visuals arguments, vorder the iteration order of  *)
(* the class's properties, korder that of kwargs.  source is the data      *)
(* source the call worked on, as the call leaves it.                       *)
glyph_func(glyphclass, self, kwargs, fd, vorder, korder) ==
    func_to_return(self,
        func_to_renderer(glyphclass, GlyphProperties[glyphclass], self, vorder,
            func_to_literals(GlyphDataspecs[glyphclass], self, vorder, korder,
                func_to_visuals(GlyphProperties[glyphclass], self, kwargs, fd,
                                vorder))))

(* the keyword arguments of the glyph calls and the values tried for each *)
SampleColumn == <<"b", "a", "b">>

GlyphKwargOptions ==
    (<<"source">> :> {None,
                      DataSource("cds", (<<"x">> :> SampleColumn), "user"),
                      DataSource("data", (<<"x">> :> SampleColumn), "user"),
                      DataSource("bad", EmptyDict, "user")})
    @@ (<<"legend", "label">> :> {PyStr(<<"a">>)})
    @@ (<<"legend", "field">> :> {PyStr(<<"x">>)})
    @@ (<<"legend", "group">> :> {PyStr(<<"x">>)})
    @@ (<<"name">> :> {PyStr(<<"r">>)})
    @@ (<<"x">> :> {PyNum(<<"1">>), PyStr(<<"x">>), <<"list", <<"a", "b">>>>,
                    <<"ndarray2", <<"a", "b">>>>, <<"tuple", <<"1", "2", "3">>>>})
    @@ (<<"line", "color">> :> {PyStr(<<"red">>), <<"list", <<"a", "c">>>>,
                                <<"tuple", <<"1", "2", "3">>>>})
    @@ (<<"color">> :> {<<"list", <<"c", "c">>>>})
    @@ (<<"selection", "color">> :> {PyStr(<<"blue">>)})
    @@ (<<"hover", "alpha">> :> {PyNum(<<"0.5">>)})
    @@ (<<"muted", "color">> :> {PyStr(<<"grey">>)})
    @@ (<<"nonselection", "alpha">> :> {PyNum(<<"0.2">>)})
    @@ (<<"foo">> :> {PyNum(<<"1">>)})

RECURSIVE DictsOver(_)
DictsOver(ks) ==
    IF ks = {} THEN {EmptyDict}
    ELSE LET k == CHOOSE x \in ks : TRUE
         IN  {Put(d, k, v) : d \in DictsOver(ks \ {k}), v \in GlyphKwargOptions[k]}

GlyphKwargs ==
    UNION {DictsOver(ks) : ks \in SubsetsUpTo(DOMAIN GlyphKwargOptions, MaxKwargs)}

----------------------------------------------------------------------------
(* State *)

NoCall == [none |-> TRUE]

Init ==
    /\ pc = "idle"
    /\ op = "none"
    /\ inp = NoCall
    /\ out = NoCall
    /\ func_defaults = [defaults |-> EmptyDict, override_defaults |-> EmptyDict]
    /\ plot = [renderers |-> <<>>, legends |-> <<>>]

(* a call of _pop_visuals; an omitted defaults or override_defaults        *)
(* argument binds the dict object stored with the function                 *)
PopVisualsCall ==
    /\ pc = "idle"
    /\ \E cls \in GlyphClasses, prefix \in Prefixes,
          pk \in SubsetsUpTo(PropsKeys, MaxProps),
          dk \in {Omitted} \cup SubsetsUpTo(DefaultsKeys, MaxDefaults),
          ok \in {Omitted} \cup SubsetsUpTo(OverrideKeys, 1) :
        \E order \in VisualOrders(GlyphProperties[cls]) :
          LET props == DictOf("p", pk)
              defaults == IF dk = Omitted THEN func_defaults.defaults
                          ELSE DictOf("d", dk)
              override == IF ok = Omitted THEN func_defaults.override_defaults
                          ELSE DictOf("o", ok)
              r == _pop_visuals(GlyphProperties[cls], props, prefix, defaults,
                                override, order)
          IN  /\ inp' = [glyphclass |-> cls, props |-> props, prefix |-> prefix,
                         defaults |-> defaults, override_defaults |-> override,
                         defaults_omitted |-> (dk = Omitted),
                         override_omitted |-> (ok = Omitted)]
              /\ out' = r
              /\ func_defaults' =
                   [defaults |-> IF dk = Omitted THEN r.defaults
                                 ELSE func_defaults.defaults,
                    override_defaults |-> IF ok = Omitted THEN r.override_defaults
                                          ELSE func_defaults.override_defaults]
    /\ pc' = "done"
    /\ op' = "_pop_visuals"
    /\ UNCHANGED plot

(* a call of _pop_legend_kwarg *)
PopLegendKwargCall ==
    /\ pc = "idle"
    /\ \E ks \in SUBSET LegendKwargKeys :
        LET kwargs == DictOf("k", ks)
        IN  /\ inp' = [kwargs |-> kwargs]
            /\ out' = _pop_legend_kwarg(kwargs)
    /\ pc' = "done"
    /\ op' = "_pop_legend_kwarg"
    /\ UNCHANGED <<func_defaults, plot>>

(* a call of _single_stack with spec 'top' *)
SingleStackCall ==
    /\ pc = "idle"
    /\ \E stackers \in SeqsUpTo(StackerNames, MaxStackers), kw \in StackKws :
        /\ inp' = [stackers |-> stackers, specs |-> {<<"top">>}, kw |-> kw]
        /\ out' = _single_stack(stackers, <<"top">>, kw)
    /\ pc' = "done"
    /\ op' = "_single_stack"
    /\ UNCHANGED <<func_defaults, plot>>

(* a call of _double_stack with spec0 'bottom' and spec1 'top' *)
DoubleStackCall ==
    /\ pc = "idle"
    /\ \E stackers \in SeqsUpTo(StackerNames, MaxStackers), kw \in StackKws :
        /\ inp' = [stackers |-> stackers, specs |-> {<<"bottom">>, <<"top">>},
                   kw |-> kw]
        /\ out' = _double_stack(stackers, <<"bottom">>, <<"top">>, kw)
    /\ pc' = "done"
    /\ op' = "_double_stack"
    /\ UNCHANGED <<func_defaults, plot>>

(* a call of _get_range *)
GetRangeCall ==
    /\ pc = "idle"
    /\ \E range_input \in RangeInputs :
        /\ inp' = [range_input |-> range_input]
        /\ out' = _get_range(range_input)
    /\ pc' = "done"
    /\ op' = "_get_range"
    /\ UNCHANGED <<func_defaults, plot>>

(* a call of _get_axis_class *)
GetAxisClassCall ==
    /\ pc = "idle"
    /\ \E axis_type \in AxisTypes, range_input \in ExistingRanges, dim \in Dims,
          start_validates \in BOOLEAN :
        /\ inp' = [axis_type |-> axis_type, range_input |-> range_input,
                   dim |-> dim, start_validates |-> start_validates]
        /\ out' = _get_axis_class(axis_type, range_input, dim, start_validates)
    /\ pc' = "done"
    /\ op' = "_get_axis_class"
    /\ UNCHANGED <<func_defaults, plot>>

MaxPlotRenderers == 3

ViewModels == {"GlyphRenderer", "GuideRenderer"}

(* the plots get_default_color is called with: None, plots of a few        *)
(* renderers, and a plot with as many glyph renderers as there are colors  *)
DefaultColorPlots ==
    {NoPlot}
    \cup {[given |-> TRUE, renderers |-> r] :
            r \in UNION {[1..n -> ViewModels] : n \in 0..MaxPlotRenderers}}
    \cup {[given |-> TRUE, renderers |-> [i \in 1..Len(colors) |-> "GlyphRenderer"]]}

(* a call of get_default_color *)
GetDefaultColorCall ==
    /\ pc = "idle"
    /\ \E p \in DefaultColorPlots :
        /\ inp' = [plot |-> p]
        /\ out' = get_default_color(p)
    /\ pc' = "done"
    /\ op' = "get_default_color"
    /\ UNCHANGED <<func_defaults, plot>>

(* a call of _tool_from_string *)
ToolFromStringCall ==
    /\ pc = "idle"
    /\ \E name \in ToolNames \cup DOMAIN _known_tools :
        /\ inp' = [name |-> name]
        /\ out' = _tool_from_string(name)
    /\ pc' = "done"
    /\ op' = "_tool_from_string"
    /\ UNCHANGED <<func_defaults, plot>>

(* a call of _process_tools_arg *)
ProcessToolsArgCall ==
    /\ pc = "idle"
    /\ \E tools \in ToolsArgs, tooltips \in TooltipsArgs :
        /\ inp' = [tools |-> tools, tooltips |-> tooltips]
        /\ out' = _process_tools_arg(tools, tooltips)
    /\ pc' = "done"
    /\ op' = "_process_tools_arg"
    /\ UNCHANGED <<func_defaults, plot>>

(* a call of _process_active_tools on a new Toolbar *)
ProcessActiveToolsCall ==
    /\ pc = "idle"
    /\ \E tool_map \in ToolMaps, active_drag \in ActiveValues,
          active_inspect \in ActiveInspectValues, active_scroll \in ActiveValues,
          active_tap \in ActiveValues :
        /\ inp' = [toolbar |-> NewToolbar, tool_map |-> tool_map,
                   active_drag |-> active_drag, active_inspect |-> active_inspect,
                   active_scroll |-> active_scroll, active_tap |-> active_tap]
        /\ out' = _process_active_tools(NewToolbar, tool_map, active_drag,
                                        active_inspect, active_scroll, active_tap)
    /\ pc' = "done"
    /\ op' = "_process_active_tools"
    /\ UNCHANGED <<func_defaults, plot>>

(* a call of the glyph method of a class on the plot *)
GlyphCall ==
    /\ pc = "idle"
    /\ Len(plot.renderers) < MaxRenderers
    /\ \E cls \in GlyphClasses, kwargs \in GlyphKwargs :
        \E vorder \in VisualOrders(GlyphProperties[cls]),
           korder \in Orders(DOMAIN kwargs) :
          LET r == glyph_func(cls, plot, kwargs, func_defaults, vorder, korder)
          IN  /\ inp' = [glyphclass |-> cls, kwargs |-> kwargs, plot |-> plot]
              /\ out' = [raised |-> r.raised, renderer |-> r.renderer,
                         source |-> r.source, kwargs |-> r.kwargs,
                         glyph_ca |-> r.glyph_ca]
              /\ plot' = r.plot
              /\ func_defaults' = r.func_defaults
    /\ pc' = "done"
    /\ op' = "glyph"

(* the legend keyword and the data source of the renderer in the calls of  *)
(* _update_legend                                                          *)
MaxLegendCalls == 4

LegendKwargs ==
    {(<<"legend", "label">> :> v) : v \in {PyStr(<<"a">>), PyStr(<<"x">>), PyNum(<<"1">>)}}
    \cup {(<<"legend", "field">> :> v) : v \in {PyStr(<<"a">>), PyStr(<<"x">>)}}
    \cup {(<<"legend", "group">> :> v) : v \in {PyStr(<<"x">>), PyStr(<<"a">>)}}
    \cup {(<<"legend">> :> v) : v \in {PyStr(<<"x">>), <<"dict", <<"field", "a">>>>,
                                       <<"tuple", <<"1", "2", "3">>>>,
                                       <<"tuple", <<"1">>>>}}

LegendSources == {None, DataSource("cds", (<<"x">> :> SampleColumn), "user")}

(* the end of a glyph method for a new renderer: _update_legend with the   *)
(* legend keyword, then the renderer is appended to the plot's renderers   *)
UpdateLegendCall ==
    /\ pc = "idle"
    /\ Len(plot.renderers) < MaxLegendCalls
    /\ \E legend_kwarg \in LegendKwargs, source \in LegendSources :
          LET glyph_renderer == [id |-> Len(plot.renderers) + 1,
                                 data_source |-> source]
              lu == _update_legend(plot, legend_kwarg, glyph_renderer)
          IN  /\ inp' = [plot |-> plot, legend_kwarg |-> legend_kwarg,
                         glyph_renderer |-> glyph_renderer]
              /\ out' = [raised |-> lu.raised]
              /\ plot' = IF lu.raised = "none"
                         THEN [lu.plot EXCEPT !.renderers = Append(@, glyph_renderer.id)]
                         ELSE lu.plot
    /\ pc' = "done"
    /\ op' = "_update_legend"
    /\ UNCHANGED func_defaults

(* the caller drops the arguments and the result of the finished call *)
Return ==
    /\ pc = "done"
    /\ pc' = "idle"
    /\ op' = "none"
    /\ inp' = NoCall
    /\ out' = NoCall
    /\ UNCHANGED <<func_defaults, plot>>

Next ==
    \/ PopVisualsCall
    \/ PopLegendKwargCall
    \/ SingleStackCall
    \/ DoubleStackCall
    \/ GetRangeCall
    \/ GetAxisClassCall
    \/ GetDefaultColorCall
    \/ ToolFromStringCall
    \/ ProcessToolsArgCall
    \/ ProcessActiveToolsCall
    \/ Return

Spec == Init /\ [][Next]_vars

(* the glyph methods called one after the other on one plot *)
GlyphNext ==
    \/ GlyphCall
    \/ Return

GlyphSpec == Init /\ [][GlyphNext]_vars

(* renderers with legend keywords added one after the other to one plot *)
LegendNext ==
    \/ UpdateLegendCall
    \/ Return

LegendSpec == Init /\ [][LegendNext]_vars

----------------------------------------------------------------------------
(* Properties of _pop_visuals *)

PopVisualsDone == pc = "done" /\ op = "_pop_visuals"

VisualProps(cls) == {p \in GlyphProperties[cls] : is_visual(p)}

(* the tier that resolves pname when the lookup is made on the dicts as    *)
(* they were passed: 0 when no tier matches                                *)
TierOf(glyphprops, props, prefix, defaults, override_defaults, pname) ==
    LET trait == Tail(pname)
    IN  IF prefix \o pname \in DOMAIN props THEN 1
        ELSE IF trait \notin glyphprops /\ prefix \o trait \in DOMAIN props THEN 2
        ELSE IF trait \in DOMAIN override_defaults THEN 3
        ELSE IF pname \in DOMAIN defaults \/ pname = <<"text", "color">> THEN 4
        ELSE IF trait \in {<<"color">>, <<"alpha">>} THEN 5
        ELSE 0

TierValue(tier, props, prefix, defaults, override_defaults, pname) ==
    CASE tier = 1 -> props[prefix \o pname]
      [] tier = 2 -> props[prefix \o Tail(pname)]
      [] tier = 3 -> override_defaults[Tail(pname)]
      [] tier = 4 -> IF pname \in DOMAIN defaults THEN defaults[pname]
                     ELSE <<"str", <<"black">>>>
      [] tier = 5 -> IF Tail(pname) = <<"color">> THEN <<"str", <<"#1f77b4">>>>
                     ELSE <<"num", <<"1.0">>>>

(* C1: _pop_visuals resolves every visual property of the glyph by the     *)
(* first matching tier in the order prefixed key, alias key (trait not a   *)
(* glyph property), override default, glyph-level default completed with   *)
(* text_color = 'black', global trait default; a property matched by no    *)
(* tier is absent from the result and the result has no other keys.        *)
C1_CascadeOrder ==
    PopVisualsDone =>
        LET gp == GlyphProperties[inp.glyphclass]
            T(p) == TierOf(gp, inp.props, inp.prefix, inp.defaults,
                           inp.override_defaults, p)
        IN  /\ DOMAIN out.result \subseteq VisualProps(inp.glyphclass)
            /\ \A p \in VisualProps(inp.glyphclass) :
                 IF T(p) = 0 THEN p \notin DOMAIN out.result
                 ELSE /\ p \in DOMAIN out.result
                      /\ out.result[p] = TierValue(T(p), inp.props, inp.prefix,
                             inp.defaults, inp.override_defaults, p)

(* a call on Rect in which line_color comes from the alias key color,      *)
(* fill_alpha from the override default although a glyph-level default is  *)
(* given for it, and line_width is resolved by no tier                     *)
C1_Witness ==
    /\ PopVisualsDone
    /\ inp.glyphclass = "Rect"
    /\ inp.prefix = <<"selection">>
    /\ DOMAIN inp.props = {<<"selection", "color">>, <<"selection", "width">>}
    /\ DOMAIN inp.override_defaults = {<<"alpha">>}
    /\ DOMAIN inp.defaults = {<<"fill", "alpha">>}
    /\ DOMAIN out.result = {<<"line", "color">>, <<"fill", "alpha">>}
    /\ out.result[<<"line", "color">>] = inp.props[<<"selection", "color">>]
    /\ out.result[<<"fill", "alpha">>] = inp.override_defaults[<<"alpha">>]

(* the keys _pop_visuals is to remove from props *)
PoppedKeys(cls, prefix) ==
    {prefix \o p : p \in VisualProps(cls)}
    \cup {prefix \o Tail(p) : p \in {q \in VisualProps(cls) :
                                      Tail(q) \notin GlyphProperties[cls]}}

(* C7: after _pop_visuals returns, props holds no key prefix+pname of a    *)
(* visual property and no alias key prefix+trait of a trait that is not a  *)
(* glyph property, and every other key is still there with its value.      *)
C7_PropsFrame ==
    PopVisualsDone =>
        LET gone == PoppedKeys(inp.glyphclass, inp.prefix)
        IN  /\ DOMAIN out.props = (DOMAIN inp.props) \ gone
            /\ \A k \in DOMAIN out.props : out.props[k] = inp.props[k]

(* a call with prefix selection_ that removes the alias key                *)
(* selection_color and leaves the unprefixed key color in props            *)
C7_Witness ==
    /\ PopVisualsDone
    /\ inp.glyphclass = "Rect"
    /\ inp.prefix = <<"selection">>
    /\ DOMAIN inp.props = {<<"selection", "color">>, <<"color">>}
    /\ DOMAIN out.props = {<<"color">>}

(* C8: _pop_visuals leaves its defaults and override_defaults arguments as *)
(* they were, the dicts bound to omitted arguments included, so a call     *)
(* that omits them always sees them empty, whatever calls came before.     *)
C8_DefaultsUntouched ==
    /\ func_defaults.defaults = EmptyDict
    /\ func_defaults.override_defaults = EmptyDict
    /\ PopVisualsDone =>
         /\ out.defaults = inp.defaults
         /\ out.override_defaults = inp.override_defaults
         /\ inp.defaults_omitted => inp.defaults = EmptyDict
         /\ inp.override_omitted => inp.override_defaults = EmptyDict

(* a call on Text without a defaults argument, in which the completion of  *)
(* defaults with text_color = 'black' decided the result                   *)
C8_Witness ==
    /\ PopVisualsDone
    /\ inp.glyphclass = "Text"
    /\ inp.defaults_omitted
    /\ inp.override_omitted
    /\ <<"text", "color">> \in DOMAIN out.result
    /\ out.result[<<"text", "color">>] = <<"str", <<"black">>>>
    /\ <<"text", "color">> \notin DOMAIN out.defaults

----------------------------------------------------------------------------
(* Properties of _pop_legend_kwarg *)

LegendKeys == {<<"legend">>, <<"legend", "label">>, <<"legend", "field">>,
               <<"legend", "group">>}

(* C2: _pop_legend_kwarg raises ValueError exactly when more than one of   *)
(* legend, legend_label, legend_field, legend_group is in kwargs;          *)
(* otherwise it returns the zero or one legend key that was present with   *)
(* its value, and that key is no longer in kwargs.                         *)
C2_LegendConflict ==
    (pc = "done" /\ op = "_pop_legend_kwarg") =>
        LET given == LegendKeys \cap DOMAIN inp.kwargs
        IN  /\ (out.raised = "ValueError") <=> (Cardinality(given) > 1)
            /\ out.raised \in {"ValueError", "none"}
            /\ out.raised = "none" =>
                 /\ DOMAIN out.result = given
                 /\ \A k \in given : out.result[k] = inp.kwargs[k]
                 /\ given \cap DOMAIN out.kwargs = {}

(* a call with exactly legend_label and x: legend_label is returned and    *)
(* popped, x stays                                                         *)
C2_Witness ==
    /\ pc = "done" /\ op = "_pop_legend_kwarg"
    /\ DOMAIN inp.kwargs = {<<"legend", "label">>, <<"x">>}
    /\ out.raised = "none"
    /\ DOMAIN out.result = {<<"legend", "label">>}
    /\ DOMAIN out.kwargs = {<<"x">>}

----------------------------------------------------------------------------
(* Properties of _single_stack and _double_stack *)

StackDone == pc = "done" /\ op \in {"_single_stack", "_double_stack"}

ListLengths(kw) == {Len(kw[k][2]) : k \in {j \in DOMAIN kw : kw[j][1] = "list"}}

(* C3: the stack helpers raise ValueError when the list-valued keyword     *)
(* arguments differ in length, when their common length is not             *)
(* len(stackers), or when a stack property name is a keyword argument;     *)
(* with no list-valued keyword argument no length check fails and one dict *)
(* per stacker is returned.                                                *)
C3_StackValidation ==
    StackDone =>
        LET lens == ListLengths(inp.kw)
            nameClash == inp.specs \cap DOMAIN inp.kw # {}
        IN  /\ Cardinality(lens) > 1 => out.raised = "ValueError"
            /\ (\E n \in lens : n # Len(inp.stackers)) => out.raised = "ValueError"
            /\ nameClash => out.raised = "ValueError"
            /\ (lens = {} /\ ~nameClash) =>
                 /\ out.raised = "none"
                 /\ Len(out.result) = Len(inp.stackers)

(* _single_stack called with two stackers and a one-item list as keyword   *)
(* argument raises                                                         *)
C3_Witness ==
    /\ pc = "done" /\ op = "_single_stack"
    /\ DOMAIN inp.kw = {<<"color">>}
    /\ inp.kw[<<"color">>][1] = "list"
    /\ Len(inp.kw[<<"color">>][2]) = 1
    /\ Len(inp.stackers) = 2
    /\ out.raised = "ValueError"

----------------------------------------------------------------------------
(* Properties of _get_range *)

GetRangeDone == pc = "done" /\ op = "_get_range"

AllStrings(elems) == \A i \in DOMAIN elems : elems[i][1] = "str"

IsSequenceInput(ri) == ri.kind \in {"Sequence", "ndarray", "Series"}

(* whether the strings of seq are in ascending order *)
Ascending(seq) ==
    \A i, j \in DOMAIN seq : i < j => StrRank[seq[i][2][1]] < StrRank[seq[j][2][1]]

(* the cases of the classification that do not depend on the reading of    *)
(* "every other input"                                                     *)
RangeClassification(ri, o) ==
    /\ ri.kind = "None" =>
         o.raised = "none" /\ o.range.cls = "DataRange1d" /\ o.range.fresh
    /\ ri.kind = "Range" => o.raised = "none" /\ o.range = ri.obj
    /\ (IsSequenceInput(ri) /\ AllStrings(ri.elems)) =>
         /\ o.raised = "none"
         /\ o.range.cls = "FactorRange"
         /\ o.range.factors = ri.elems
    /\ (IsSequenceInput(ri) /\ ~AllStrings(ri.elems) /\ Len(ri.elems) = 2) =>
         \/ /\ o.raised = "none"
            /\ o.range.cls = "Range1d"
            /\ o.range.start = ri.elems[1]
            /\ o.range.end = ri.elems[2]
            /\ ~(ri.rejects /\ ~(ri.elems[1][1] = "num" /\ ri.elems[2][1] = "num"))
         \/ /\ o.raised = "ValueError"
            /\ ri.rejects
    /\ (IsSequenceInput(ri) /\ ~AllStrings(ri.elems) /\ Len(ri.elems) # 2) =>
         o.raised = "ValueError"
    /\ ri.kind = "other" => o.raised = "ValueError"
    /\ o.raised \in {"none", "ValueError"}
    /\ o.raised = "none" => o.range.cls \in {"DataRange1d", "FactorRange", "Range1d"}

(* the claim as stated: every input that is not None, a Range or a         *)
(* sequence raises ValueError                                              *)
C4_Original ==
    GetRangeDone =>
        /\ RangeClassification(inp.range_input, out)
        /\ inp.range_input.kind \notin {"None", "Range", "Sequence", "ndarray",
                                        "Series"} => out.raised = "ValueError"

(* C4: _get_range returns a new DataRange1d for None, the same object for  *)
(* a Range, a FactorRange with the same factors in the same order for a    *)
(* sequence of strings, Range1d(first, second) for any other sequence of   *)
(* two elements that Range1d accepts, and a FactorRange of the sorted      *)
(* group keys for a pandas GroupBy; every other input raises ValueError    *)
(* and no call returns without a range.                                    *)
C4_RangeClassification ==
    GetRangeDone =>
        /\ RangeClassification(inp.range_input, out)
        /\ inp.range_input.kind = "GroupBy" =>
             /\ out.raised = "none"
             /\ out.range.cls = "FactorRange"
             /\ Range(out.range.factors) = Range(inp.range_input.elems)
             /\ Len(out.range.factors) = Len(inp.range_input.elems)
             /\ Ascending(out.range.factors)

(* a GroupBy whose keys are held in the order b, a yields the factors a, b *)
C4_Witness ==
    /\ GetRangeDone
    /\ inp.range_input.kind = "GroupBy"
    /\ inp.range_input.elems = <<<<"str", <<"b">>>>, <<"str", <<"a">>>>>>
    /\ out.raised = "none"
    /\ out.range.factors = <<<<"str", <<"a">>>>, <<"str", <<"b">>>>>>

----------------------------------------------------------------------------
(* Properties of _get_axis_class *)

AxisStr(t) == <<"str", <<t>>>>

(* C5: _get_axis_class raises ValueError for every axis_type other than    *)
(* None, linear, log, datetime, mercator and auto; None gives no axis      *)
(* class; mercator gives dimension lon for dim 0 and lat otherwise; auto    *)
(* gives CategoricalAxis for a FactorRange, DatetimeAxis for a Range1d     *)
(* whose start validates as a datetime, LinearAxis otherwise.              *)
C5_AxisClass ==
    (pc = "done" /\ op = "_get_axis_class") =>
        LET t == inp.axis_type
            known == {<<"None", <<>>>>} \cup
                     {AxisStr(x) : x \in {"linear", "log", "datetime",
                                          "mercator", "auto"}}
        IN  /\ (out.raised = "ValueError") <=> (t \notin known)
            /\ t = <<"None", <<>>>> => out.cls = "None"
            /\ t = AxisStr("mercator") =>
                 /\ out.cls = "MercatorAxis"
                 /\ out.kw[<<"dimension">>] =
                      IF inp.dim = 0 THEN AxisStr("lon") ELSE AxisStr("lat")
            /\ t = AxisStr("auto") =>
                 out.cls = IF inp.range_input.cls = "FactorRange"
                           THEN "CategoricalAxis"
                           ELSE IF inp.range_input.cls = "Range1d"
                                   /\ inp.start_validates
                           THEN "DatetimeAxis"
                           ELSE "LinearAxis"

----------------------------------------------------------------------------
(* Properties of _tool_from_string and _process_tools_arg *)

KnownToolNames ==
    {"pan", "xpan", "ypan", "xwheel_pan", "ywheel_pan", "wheel_zoom",
     "xwheel_zoom", "ywheel_zoom", "zoom_in", "xzoom_in", "yzoom_in",
     "zoom_out", "xzoom_out", "yzoom_out", "click", "tap", "crosshair",
     "box_select", "xbox_select", "ybox_select", "poly_select", "lasso_select",
     "box_zoom", "xbox_zoom", "ybox_zoom", "hover", "save", "previewsave",
     "undo", "redo", "reset", "help", "box_edit", "point_draw", "poly_draw",
     "poly_edit"}

(* the non-empty names a tools string holds *)
NamesIn(str) == {n \in Range(re_split(str)) : n # ""}

(* C6: _tool_from_string returns a new tool exactly for the keys of the    *)
(* known-tools table, matched case-sensitively, previewsave giving the     *)
(* kind of tool save gives; every other name raises ValueError, and        *)
(* _process_tools_arg given a tools string with such a name raises it      *)
(* instead of returning a tool list.                                       *)
C6_UnknownToolName ==
    /\ (pc = "done" /\ op = "_tool_from_string") =>
         /\ (out.raised = "none") <=> (inp.name \in KnownToolNames)
         /\ (out.raised = "ValueError") <=> (inp.name \notin KnownToolNames)
         /\ out.raised = "none" => out.tool.id = 0 /\ out.tool.cls # ""
         /\ inp.name \in {"save", "previewsave"} =>
              out.tool.cls = "SaveTool" /\ out.tool.arg = ""
    /\ (pc = "done" /\ op = "_process_tools_arg" /\ inp.tools.kind = "str") =>
         /\ (\E n \in NamesIn(inp.tools.str) : n \notin KnownToolNames)
              => out.raised = "ValueError"
         /\ (\A n \in NamesIn(inp.tools.str) : n \in KnownToolNames)
              => out.raised = "none"

(* the tools string "pan, Pan" raises because of the name Pan *)
C6_Witness ==
    /\ pc = "done" /\ op = "_process_tools_arg"
    /\ inp.tools.kind = "str"
    /\ inp.tools.str = <<"pan", ",", "Pan">>
    /\ out.raised = "ValueError"

----------------------------------------------------------------------------
(* Properties of _process_active_tools *)

ActiveToolsDone == pc = "done" /\ op = "_process_active_tools"

(* C10: every ValueError raised by _process_active_tools for an unknown    *)
(* active_drag, active_inspect, active_scroll or active_tap value reports  *)
(* in its message the value supplied for that same gesture.                *)
C10_ErrorReportsOwnValue ==
    (ActiveToolsDone /\ out.raised = "ValueError") =>
        out.reported = inp[out.gesture]

----------------------------------------------------------------------------
(* Properties of the glyph methods *)

GlyphDone == pc = "done" /\ op = "glyph"

SourceSupplied ==
    <<"source">> \in DOMAIN inp.kwargs /\ inp.kwargs[<<"source">>][1] # "None"

(* a literal sequence given to the data spec k: an iterable that is no     *)
(* str, no dict and no tuple of 3 or 4 numbers given to a color spec       *)
IsLiteralSequence(cls, k, v) ==
    /\ v[1] \in {"list", "tuple", "ndarray1", "ndarray2"}
    /\ ~(/\ GlyphDataspecs[cls][k] = "ColorSpec"
         /\ v[1] = "tuple"
         /\ Len(v[2]) \in {3, 4}
         /\ \A i \in DOMAIN v[2] : v[2][i] \in {"1", "2", "3"})

LiteralKeys ==
    {k \in (DOMAIN inp.kwargs) \cap (DOMAIN GlyphDataspecs[inp.glyphclass]) :
        IsLiteralSequence(inp.glyphclass, k, inp.kwargs[k])}

(* the value the keyword k has when the call leaves: in kwargs, or in      *)
(* glyph_ca for a visual property                                          *)
KeywordValue(k) ==
    IF k \in DOMAIN out.kwargs THEN out.kwargs[k] ELSE out.glyph_ca[k]

(* with a supplied source a literal sequence raises RuntimeError and       *)
(* leaves the source, the keyword values and the plot alone                *)
LiteralWithSourceRaises ==
    (SourceSupplied /\ LiteralKeys # {}) =>
        /\ out.raised = "RuntimeError"
        /\ out.renderer = NoRenderer
        /\ plot = inp.plot
        /\ out.source[2] = inp.kwargs[<<"source">>][2]
        /\ \A k \in LiteralKeys :
              /\ k \in (DOMAIN out.kwargs) \cup (DOMAIN out.glyph_ca)
              /\ KeywordValue(k) = inp.kwargs[k]

(* the literal sequences k are columns of the new data source and the      *)
(* keywords hold the column names, and in a call that succeeds the         *)
(* renderer has that source and its glyph the column names                 *)
LiteralsBecomeColumns(keys) ==
    \A k \in keys :
        /\ out.source[1] = "cds" /\ out.source[3] = "new"
        /\ k \in DOMAIN out.source[2]
        /\ out.source[2][k] = inp.kwargs[k][2]
        /\ k \in (DOMAIN out.kwargs) \cup (DOMAIN out.glyph_ca)
        /\ KeywordValue(k) = <<"str", k>>
        /\ out.raised = "none" =>
             /\ out.renderer.data_source = out.source
             /\ out.renderer.glyph.kws[k] = <<"str", k>>
             /\ Len(plot.renderers) = Len(inp.plot.renderers) + 1

(* C9: in a glyph method, when the caller supplies a source, every         *)
(* data-spec keyword whose value is a literal sequence makes the call      *)
(* raise RuntimeError, with the supplied source and the keyword values     *)
(* left unmodified and no renderer added to the plot; when no source is    *)
(* supplied (the keyword is not passed, or is None), each such sequence is *)
(* added to the renderer's new data source as a column named after the     *)
(* keyword and the keyword's value is replaced by that column name.        *)
C9_SequenceLiterals ==
    GlyphDone =>
        /\ LiteralWithSourceRaises
        /\ ~SourceSupplied => LiteralsBecomeColumns(LiteralKeys)

----------------------------------------------------------------------------
(* Properties of the toolbar fields set by _process_active_tools *)

Gestures == <<"active_drag", "active_inspect", "active_scroll", "active_tap">>

(* a list or tuple made only of Tool instances *)
IsToolCollection(v) ==
    v.kind \in {"list", "tuple"} /\ \A i \in DOMAIN v.items : v.items[i].kind = "Tool"

(* the values the claim has assigned unchanged for the gesture *)
GivenUnchanged(gesture, v) ==
    \/ v.kind \in {"auto", "None", "Tool"}
    \/ gesture = "active_inspect" /\ IsToolCollection(v)

(* a name that was supplied in the tools argument *)
SuppliedName(v, tool_map) == v.kind = "str" /\ v.name \in DOMAIN tool_map

(* the value a gesture's field gets from a value that is accepted *)
NewActive(v, tool_map) ==
    IF SuppliedName(v, tool_map) THEN ActiveTool(tool_map[v.name]) ELSE v

(* C11: for each gesture _process_active_tools sets active_<gesture> to    *)
(* the given value when it is 'auto', None or a Tool (for inspect also a   *)
(* collection of Tools only), to tool_map[value] when the value is a name  *)
(* supplied in tools, and raises ValueError in every other case; it never  *)
(* assigns a name string that is not in tool_map.                          *)
C11_ActiveAssignment ==
    ActiveToolsDone =>
        /\ IF \A i \in 1..4 :
                  \/ GivenUnchanged(Gestures[i], inp[Gestures[i]])
                  \/ SuppliedName(inp[Gestures[i]], inp.tool_map)
           THEN /\ out.raised = "none"
                /\ \A i \in 1..4 :
                      out.toolbar[Gestures[i]]
                          = NewActive(inp[Gestures[i]], inp.tool_map)
           ELSE out.raised = "ValueError"
        /\ \A i \in 1..4 :
              out.toolbar[Gestures[i]].kind = "str"
                  => out.toolbar[Gestures[i]].name \in DOMAIN inp.tool_map

(* C16: the gestures are handled in the order drag, inspect, scroll, tap:  *)
(* when ValueError is raised for a gesture, the fields of the gestures     *)
(* before it hold their new values and the fields of that gesture and of   *)
(* the gestures after it are unchanged.                                    *)
C16_PartialAssignment ==
    (ActiveToolsDone /\ out.raised = "ValueError") =>
        \E n \in 1..4 :
            /\ out.gesture = Gestures[n]
            /\ \A i \in 1..(n - 1) :
                  out.toolbar[Gestures[i]]
                      = NewActive(inp[Gestures[i]], inp.tool_map)
            /\ \A i \in n..4 :
                  out.toolbar[Gestures[i]] = inp.toolbar[Gestures[i]]

(* scroll is rejected after drag was set from a supplied name and inspect  *)
(* from a Tool, with a tap value that would have been accepted             *)
C16_Witness ==
    /\ ActiveToolsDone
    /\ out.raised = "ValueError"
    /\ out.gesture = "active_scroll"
    /\ inp.active_drag = ActiveStr("pan")
    /\ out.toolbar.active_drag.kind = "Tool"
    /\ out.toolbar.active_drag.obj.cls = "PanTool"
    /\ inp.active_inspect.kind = "Tool"
    /\ out.toolbar.active_inspect = inp.active_inspect
    /\ inp.active_tap.kind = "Tool"
    /\ out.toolbar.active_tap = Auto

----------------------------------------------------------------------------
(* Properties of the renderer a glyph method builds *)

(* some keyword argument of the call starts with the prefix and "_" *)
KeywordWithPrefix(prefix) ==
    \E k \in DOMAIN inp.kwargs : Len(k) >= 2 /\ k[1] = prefix

(* C12: a glyph method always builds a nonselection glyph for the          *)
(* renderer, and a selection, hover or muted glyph only when a keyword     *)
(* argument starting with selection_, hover_ or muted_ is present, the     *)
(* renderer's glyph being None otherwise; the returned renderer is         *)
(* appended to the plot's renderers exactly once per successful call.      *)
C12_OptionalGlyphs ==
    (GlyphDone /\ out.raised = "none") =>
        /\ out.renderer.glyph.cls = inp.glyphclass
        /\ out.renderer.nonselection_glyph.cls = inp.glyphclass
        /\ IF KeywordWithPrefix("selection")
           THEN out.renderer.selection_glyph.cls = inp.glyphclass
           ELSE out.renderer.selection_glyph = NoGlyph
        /\ IF KeywordWithPrefix("hover")
           THEN out.renderer.hover_glyph.cls = inp.glyphclass
           ELSE out.renderer.hover_glyph = NoGlyph
        /\ IF KeywordWithPrefix("muted")
           THEN out.renderer.muted_glyph.cls = inp.glyphclass
           ELSE out.renderer.muted_glyph = NoGlyph
        /\ out.renderer.id \notin Range(inp.plot.renderers)
        /\ plot.renderers = Append(inp.plot.renderers, out.renderer.id)

(* a second call on the plot, given hover_alpha only: the renderer has a   *)
(* hover glyph with that alpha and neither a selection nor a muted glyph    *)
C12_Witness ==
    /\ GlyphDone
    /\ out.raised = "none"
    /\ inp.glyphclass = "Rect"
    /\ Len(inp.plot.renderers) = 1
    /\ DOMAIN inp.kwargs = {<<"hover", "alpha">>}
    /\ out.renderer.hover_glyph.cls = "Rect"
    /\ out.renderer.hover_glyph.kws[<<"fill", "alpha">>] = inp.kwargs[<<"hover", "alpha">>]
    /\ out.renderer.nonselection_glyph.cls = "Rect"
    /\ out.renderer.selection_glyph = NoGlyph
    /\ out.renderer.muted_glyph = NoGlyph
    /\ Len(plot.renderers) = 2

----------------------------------------------------------------------------
(* Properties of the tool list and the tool map of _process_tools_arg *)

ToolsArgDone == pc = "done" /\ op = "_process_tools_arg"

IsToolItem(item) == item.kind = "Tool"

IsStrItem(item) == item.kind = "str"

IsName(name) == name # ""

(* the Tool instances given in a list, in their order *)
GivenInstances(items) ==
    LET given == SelectSeq(items, IsToolItem)
    IN  [i \in DOMAIN given |-> given[i].obj]

(* the non-empty names of the call, in their order: those of the str       *)
(* elements of a list, or those between the commas of a tools string       *)
SuppliedNames(tools) ==
    IF tools.kind = "list"
    THEN LET strs == SelectSeq(tools.items, IsStrItem)
         IN  SelectSeq([i \in DOMAIN strs |-> text(strs[i].str)], IsName)
    ELSE SelectSeq(re_split(tools.str), IsName)

(* the tool list before tooltips are looked at: the instances given, then  *)
(* the i-th tool made by the call for the i-th name, a tool of the kind    *)
(* the known-tools table has for that name                                 *)
ToolsBeforeTooltips(tools) ==
    LET names == SuppliedNames(tools)
        given == IF tools.kind = "list" THEN GivenInstances(tools.items) ELSE <<>>
    IN  given \o [i \in DOMAIN names |->
                    [_tool_from_string(names[i]).tool EXCEPT !.id = NewToolId(i)]]

(* C13: when tooltips is not None, _process_tools_arg sets tooltips on     *)
(* exactly one HoverTool: the first HoverTool of the resulting list if     *)
(* there is one (later HoverTools unchanged, no tool added), otherwise a   *)
(* single new HoverTool appended at the end.  When tooltips is None no     *)
(* HoverTool is added and no tool's tooltips are changed.                  *)
C13_TooltipsOnOneHover ==
    (ToolsArgDone /\ out.raised = "none") =>
        LET before == ToolsBeforeTooltips(inp.tools)
            hovers == {i \in DOMAIN before : before[i].cls = "HoverTool"}
        IN  IF inp.tooltips = NoTooltips THEN out.tool_objs = before
            ELSE IF hovers = {}
            THEN /\ Len(out.tool_objs) = Len(before) + 1
                 /\ SubSeq(out.tool_objs, 1, Len(before)) = before
                 /\ out.tool_objs[Len(before) + 1].cls = "HoverTool"
                 /\ out.tool_objs[Len(before) + 1].tooltips = inp.tooltips
                 /\ \A i \in DOMAIN before :
                       before[i].id # out.tool_objs[Len(before) + 1].id
            ELSE LET first == CHOOSE i \in hovers : \A j \in hovers : i <= j
                 IN  /\ Len(out.tool_objs) = Len(before)
                     /\ \A i \in DOMAIN before :
                           IF before[i].id = before[first].id
                           THEN out.tool_objs[i]
                                    = [before[i] EXCEPT !.tooltips = inp.tooltips]
                           ELSE out.tool_objs[i] = before[i]

(* the tools list [given HoverTool, "hover"] with tooltips: the given      *)
(* instance, first in the list, gets them and the tool made for the name   *)
(* keeps the default ones                                                  *)
C13_Witness ==
    /\ ToolsArgDone
    /\ out.raised = "none"
    /\ inp.tooltips = "user"
    /\ inp.tools.kind = "list"
    /\ Len(inp.tools.items) = 2
    /\ inp.tools.items[1].kind = "Tool"
    /\ inp.tools.items[1].obj.cls = "HoverTool"
    /\ inp.tools.items[1].obj.tooltips = "mine"
    /\ inp.tools.items[2].kind = "str"
    /\ inp.tools.items[2].str = <<"hover">>
    /\ Len(out.tool_objs) = 2
    /\ out.tool_objs[1].tooltips = "user"
    /\ out.tool_objs[2].cls = "HoverTool"
    /\ out.tool_objs[2].tooltips # "user"

(* the same Tool instance, whatever its tooltips are *)
SameTool(a, b) == a.id = b.id /\ a.cls = b.cls /\ a.arg = b.arg

(* the tool list holds exactly the instances of expected, in that order *)
SameTools(tool_objs, expected) ==
    /\ Len(tool_objs) = Len(expected)
    /\ \A i \in DOMAIN expected : SameTool(tool_objs[i], expected[i])

(* the position in names of the last occurrence of name *)
LastOccurrence(names, name) ==
    CHOOSE i \in DOMAIN names :
        names[i] = name /\ \A j \in DOMAIN names : names[j] = name => j <= i

(* what the claim says of the map: its keys are the distinct names, each   *)
(* mapped to the tool made for its last occurrence, which is in the list   *)
(* after the given instances and is none of them                           *)
MapOfLastOccurrences ==
    LET names == SuppliedNames(inp.tools)
        given == GivenInstances(inp.tools.items)
    IN  /\ DOMAIN out.tool_map = Range(names)
        /\ \A n \in DOMAIN out.tool_map :
              /\ out.tool_map[n].id = NewToolId(LastOccurrence(names, n))
              /\ out.tool_map[n]
                    = out.tool_objs[Len(given) + LastOccurrence(names, n)]
              /\ \A i \in DOMAIN given : out.tool_map[n].id # given[i].id

HasOtherItem == \E i \in DOMAIN inp.tools.items :
                    inp.tools.items[i].kind \notin {"Tool", "str"}

(* the list holds at least one Tool instance and one name string *)
MixesToolsAndNames ==
    /\ \E i \in DOMAIN inp.tools.items : inp.tools.items[i].kind = "Tool"
    /\ \E i \in DOMAIN inp.tools.items : inp.tools.items[i].kind = "str"

(* C14 as stated: for a list or tuple mixing Tool instances and names,     *)
(* _process_tools_arg returns the given instances in their order followed  *)
(* by one new tool per non-empty name in the order of the names; the map   *)
(* has exactly the distinct names as keys, each mapped to the tool made    *)
(* for its last occurrence, never to a given instance; an element that is  *)
(* neither a Tool nor a string raises ValueError.                          *)
C14_Original ==
    (ToolsArgDone /\ inp.tools.kind = "list" /\ MixesToolsAndNames) =>
        /\ HasOtherItem => out.raised = "ValueError"
        /\ out.raised = "none" =>
              /\ SameTools(out.tool_objs, ToolsBeforeTooltips(inp.tools))
              /\ MapOfLastOccurrences

(* C14, amended: the same, the tool list being followed by one more tool,  *)
(* a new HoverTool, when tooltips is given and the list holds no HoverTool *)
C14_ToolListAndMap ==
    (ToolsArgDone /\ inp.tools.kind = "list") =>
        /\ HasOtherItem => out.raised = "ValueError"
        /\ out.raised = "none" =>
              LET expected == ToolsBeforeTooltips(inp.tools)
              IN  /\ IF \/ inp.tooltips = NoTooltips
                        \/ \E i \in DOMAIN expected : expected[i].cls = "HoverTool"
                     THEN SameTools(out.tool_objs, expected)
                     ELSE /\ Len(out.tool_objs) = Len(expected) + 1
                          /\ SameTools(SubSeq(out.tool_objs, 1, Len(expected)), expected)
                          /\ out.tool_objs[Len(out.tool_objs)].cls = "HoverTool"
                          /\ \A i \in DOMAIN expected :
                                expected[i].id # out.tool_objs[Len(out.tool_objs)].id
                  /\ MapOfLastOccurrences

(* the list ["pan", given PanTool, "pan"]: the given instance comes first, *)
(* then the two tools made for the name, the map holding the second one    *)
C14_Witness ==
    /\ ToolsArgDone
    /\ out.raised = "none"
    /\ inp.tools.kind = "list"
    /\ Len(inp.tools.items) = 3
    /\ inp.tools.items[1].str = <<"pan">>
    /\ inp.tools.items[2].kind = "Tool"
    /\ inp.tools.items[3].str = <<"pan">>
    /\ Len(out.tool_objs) = 3
    /\ out.tool_objs[1] = inp.tools.items[2].obj
    /\ out.tool_objs[2].id # out.tool_objs[3].id
    /\ DOMAIN out.tool_map = {"pan"}
    /\ out.tool_map["pan"] = out.tool_objs[3]

----------------------------------------------------------------------------
(* Properties of the legend handlers *)

LegendDone == pc = "done" /\ op = "_update_legend"

(* the items of the plot's legend, none when the plot has no legend yet *)
ItemsOf(p) == IF p.legends = <<>> THEN <<>> ELSE p.legends[1]

DistinctLabels(items) ==
    \A i, j \in DOMAIN items : items[i].label = items[j].label => i = j

LegendKeyword == CHOOSE k \in DOMAIN inp.legend_kwarg : TRUE

(* the label a legend_label or legend_field call looks for: the string as  *)
(* a value or as a field                                                   *)
CallLabel ==
    <<IF LegendKeyword = <<"legend", "label">> THEN "value" ELSE "field",
      inp.legend_kwarg[LegendKeyword][2]>>

(* C15: from a legend whose items have pairwise distinct labels, a         *)
(* _handle_legend_label or _handle_legend_field call leaves the labels     *)
(* pairwise distinct: a label equal to an existing item's appends the      *)
(* renderer to that item and adds no item, any other appends one new item  *)
(* holding only that renderer, a value and a field label of the same       *)
(* string being different; the labels stay distinct also when the two      *)
(* handlers are reached through the deprecated legend keyword.             *)
(* _handle_legend_group appends one new item per distinct column value,    *)
(* also when an item has that label already.                               *)
C15_DistinctLabels ==
    (LegendDone /\ out.raised = "none") =>
        LET before == ItemsOf(inp.plot)
            after == ItemsOf(plot)
            id == inp.glyph_renderer.id
        IN  IF LegendKeyword # <<"legend", "group">>
            THEN DistinctLabels(before) =>
                   /\ DistinctLabels(after)
                   /\ LegendKeyword \in {<<"legend", "label">>, <<"legend", "field">>} =>
                      IF \E i \in DOMAIN before : before[i].label = CallLabel
                      THEN /\ Len(after) = Len(before)
                           /\ \A i \in DOMAIN before :
                                 after[i] = IF before[i].label = CallLabel
                                            THEN [before[i] EXCEPT
                                                    !.renderers = Append(@, id)]
                                            ELSE before[i]
                      ELSE /\ Len(after) = Len(before) + 1
                           /\ SubSeq(after, 1, Len(before)) = before
                           /\ after[Len(after)].label = CallLabel
                           /\ after[Len(after)].renderers = <<id>>
            ELSE LET column == inp.glyph_renderer.data_source[2][
                                   inp.legend_kwarg[LegendKeyword][2]]
                     added == SubSeq(after, Len(before) + 1, Len(after))
                 IN  /\ SubSeq(after, 1, Len(before)) = before
                     /\ Len(added) = Cardinality(Range(column))
                     /\ {added[i].label : i \in DOMAIN added}
                           = {<<"value", <<v>>>> : v \in Range(column)}
                     /\ \A i \in DOMAIN added : added[i].renderers = <<id>>

(* legend_label a was given twice and legend_field a once, which made two  *)
(* items, the first with two renderers; then legend_group on a column      *)
(* holding a adds a second item labelled with the value a                  *)
C15_Witness ==
    /\ LegendDone
    /\ out.raised = "none"
    /\ LegendKeyword = <<"legend", "group">>
    /\ Len(ItemsOf(inp.plot)) = 2
    /\ ItemsOf(inp.plot)[1].label = <<"value", <<"a">>>>
    /\ ItemsOf(inp.plot)[1].renderers = <<1, 3>>
    /\ ItemsOf(inp.plot)[2].label = <<"field", <<"a">>>>
    /\ ItemsOf(inp.plot)[2].renderers = <<2>>
    /\ DistinctLabels(ItemsOf(inp.plot))
    /\ Len(ItemsOf(plot)) = 4
    /\ ~DistinctLabels(ItemsOf(plot))

====
